---- MODULE Spec2Model ----
(***************************************************************************)
(* Wire connection runtime of waypoint: the two Connection types           *)
(* (crates/wayland: narrow family, 32-bit handles, 8-byte header;          *)
(*  crates/ei: wide family, 64-bit handles, 16-byte header), their ring    *)
(* buffers, fd queues, framing and argument codec.                         *)
(*                                                                         *)
(* One sending Connection and one receiving Connection are joined by a     *)
(* unix stream socket.  Bytes are numbers 0..255 in native (little-endian) *)
(* order.  32-bit unsigned words are kept as two 16-bit limbs [hi, lo] and *)
(* 64-bit words as four, because model-checked integers are 32-bit signed. *)
(*                                                                         *)
(* LargeSpec is the same connection with messages as large as a buffer;    *)
(* in PeerSpec the peer is another program, whose headers may declare less *)
(* than a header.                                                          *)
(*                                                                         *)
(* The protocol compilers (crates/wayland_scanner, crates/ei_scanner) are  *)
(* modelled by further specifications: ResolveSpec (the version map of     *)
(* Config::generate), PruneSpec (preprocess_interfaces), ParseSpec         *)
(* (ei_scanner's ParseContext), GenSpec (the code generated for a pruned   *)
(* interface, and a read through it) and CallSpec (single calls of         *)
(* make_dependency_graph, preprocess_protocol, write_message and the      *)
(* Fixed conversions); RootsSpec is ResolveSpec with roots named more than *)
(* once.                                                                   *)
(*                                                                         *)
(* The client (src/main.rs): IdSpec is its IdAllocator, RoundtripSpec is   *)
(* WaylandConnection::roundtrip against a compositor that may close.       *)
(***************************************************************************)
EXTENDS Integers, Sequences, FiniteSets, TLC

\* ------------------------------------------------------------------ bounds
\* Initial capacity of a CircBuf (circbuf's DEFAULT_CAPACITY is 4096).
BufCap == 32
\* Bytes the kernel's socket buffer holds before sendmsg would block.
SockCap == 24
\* recvmsg delivers all the bytes that are in flight and fit, or up to this
\* many fewer.
RecvHoldBack == 2
\* Messages the sender enqueues in one run.
MaxMsgs == 2
\* Highest interface version a protocol declares or a build script requests.
MaxVersion == 2
\* Requests, events, enums and enum entries of the interface that is pruned.
MaxItems == 3
\* Longest string / array payload tried by the codec specification.
MaxLen == 5

\* Arguments in the messages of the protocols one call is given.
MaxArgs == 3

\* The numbers converted to Fixed lie between -MaxNumber and MaxNumber.
MaxNumber == 4
\* The most pairs pushed to Config.globals where a root may be named twice.
MaxRoots == 3
\* The most ids an IdAllocator hands out before one is released.
MaxIds == 3

\* ----------------------------------------------------------- small helpers
Min(a, b) == IF a < b THEN a ELSE b

Take(s, n) == SubSeq(s, 1, n)

Drop(s, n) == SubSeq(s, n + 1, Len(s))

Zeros(n) == [i \in 1..n |-> 0]

\* ------------------------------------------------- native-endian integers
\* u16::to_ne_bytes on a little-endian target.
U16Bytes(h) == <<h % 256, (h \div 256) % 256>>

U16From(b) == b[1] + 256 * b[2]

\* A u32 as limbs; u32::to_ne_bytes / from_ne_bytes.
U32Bytes(w) == U16Bytes(w.lo) \o U16Bytes(w.hi)

U32From(b) == [lo |-> U16From(SubSeq(b, 1, 2)), hi |-> U16From(SubSeq(b, 3, 4))]

\* u32::try_from(n) / u32::from(n) for a length or handle n < 2^31.
U32OfNat(n) == [lo |-> n % 65536, hi |-> (n \div 65536) % 65536]

\* `v as u32` for an i32 v (two's complement reinterpretation).
U32OfI32(v) == [lo |-> v % 65536, hi |-> (v \div 65536) % 65536]

\* `u as i32` for a u32 u.
I32OfU32(w) == IF w.hi >= 32768 THEN (w.hi - 65536) * 65536 + w.lo
                                ELSE w.hi * 65536 + w.lo

\* A u64 as two u32 limbs [hi, lo]; u64::to_ne_bytes / from_ne_bytes.
U64Bytes(q) == U32Bytes(q.lo) \o U32Bytes(q.hi)

U64From(b) == [lo |-> U32From(SubSeq(b, 1, 4)), hi |-> U32From(SubSeq(b, 5, 8))]

U64OfNat(n) == [lo |-> U32OfNat(n), hi |-> U32OfNat(0)]

\* ---------------------------------------------------------------- families
Families == {"narrow", "wide"}

NarrowHeader == 8

WideHeader == 16

\* Bytes of one header: [0u8; 8] in crates/wayland, [0u8; 16] in crates/ei.
HeaderSize(f) == IF f = "narrow" THEN NarrowHeader ELSE WideHeader

NarrowPeekMin == 2

WidePeekMin == 4

\* The length below which read_message returns None before peeking.
PeekMin(f) == IF f = "narrow" THEN NarrowPeekMin ELSE WidePeekMin

\* ----------------------------------------------------------------- CircBuf
\* A ring buffer: capacity, read and write cursors, and the buffered bytes
\* in order (the bytes between the cursors).
CircBufNew == [cap |-> BufCap, r |-> 0, w |-> 0, data |-> <<>>]

CLen(b) == (b.w - b.r + b.cap) % b.cap

\* One slot is kept free to tell full from empty.
CAvail(b) == b.cap - CLen(b) - 1

CIsEmpty(b) == b.r = b.w

\* grow(): doubles the capacity and moves the bytes to the front.
CGrow(b) == [cap |-> 2 * b.cap, r |-> 0, w |-> CLen(b), data |-> b.data]

\* write_all(bytes), with room for them.
CWriteAll(b, bytes) ==
    [b EXCEPT !.w = (b.w + Len(bytes)) % b.cap, !.data = b.data \o bytes]

\* advance_write_raw(n) after the kernel filled the free region with bytes.
CAdvanceWrite(b, bytes) == CWriteAll(b, bytes)

\* advance_read_raw(n).
CAdvanceRead(b, n) ==
    [b EXCEPT !.r = (b.r + n) % b.cap, !.data = Drop(b.data, n)]

\* get_bytes_upto_size(size): the first `size` buffered bytes as two slices,
\* split where the ring wraps.
CGetBytesUpto(b, size) ==
    LET n == Min(size, CLen(b))
        first == Min(n, b.cap - b.r)
    IN  <<SubSeq(b.data, 1, first), SubSeq(b.data, first + 1, n)>>

\* get_bytes(): all buffered bytes as two slices.
CGetBytes(b) == CGetBytesUpto(b, CLen(b))

\* ------------------------------------------------------------------- Arg
\* Arg values.  Int/Fixed carry an i32 (n), Uint a u32 (w), Float the bits
\* of an f32 (w), Int64/Uint64 the 64-bit pattern (q), String an optional
\* byte string (some, s), Array its bytes (a).
\* crates/wayland: Int, Uint, Fixed, Array, String.
\* crates/ei: Int32, Uint32, Int64, Uint64, Float, Array, String
\* (Int32/Uint32 are named Int/Uint here).
ArgInt(n) == [k |-> "Int", n |-> n]

ArgUint(w) == [k |-> "Uint", w |-> w]

ArgFixed(n) == [k |-> "Fixed", n |-> n]

ArgFloat(w) == [k |-> "Float", w |-> w]

ArgInt64(q) == [k |-> "Int64", q |-> q]

ArgUint64(q) == [k |-> "Uint64", q |-> q]

ArgString(s) == [k |-> "String", some |-> TRUE, s |-> s]

ArgStringNone == [k |-> "String", some |-> FALSE, s |-> <<>>]

ArgArray(a) == [k |-> "Array", a |-> a]

\* The closure of write_message that sizes one argument.
ArgSize(a) ==
    CASE a.k \in {"Int", "Uint", "Fixed", "Float"} -> 4
      [] a.k \in {"Int64", "Uint64"} -> 8
      [] a.k = "String" /\ a.some -> 4 + ((Len(a.s) + 4) \div 4) * 4
      [] a.k = "String" /\ ~a.some -> 4
      [] a.k = "Array" -> 4 + ((Len(a.a) + 3) \div 4) * 4

RECURSIVE BytesLen(_)
\* bytes_len: the sum of the argument sizes.
BytesLen(args) ==
    IF args = <<>> THEN 0 ELSE ArgSize(Head(args)) + BytesLen(Tail(args))

\* The bytes write_message appends for one argument.
EncodeArg(a) ==
    CASE a.k \in {"Int", "Fixed"} -> U32Bytes(U32OfI32(a.n))
      [] a.k \in {"Uint", "Float"} -> U32Bytes(a.w)
      [] a.k \in {"Int64", "Uint64"} -> U64Bytes(a.q)
      [] a.k = "String" /\ ~a.some -> U32Bytes(U32OfNat(0))
      [] a.k = "String" /\ a.some ->
            U32Bytes(U32OfNat(Len(a.s) + 1)) \o a.s
                \o Zeros(((Len(a.s) + 4) \div 4) * 4 - Len(a.s))
      [] a.k = "Array" ->
            U32Bytes(U32OfNat(Len(a.a) + 1)) \o a.a
                \o Zeros(((Len(a.a) + 3) \div 4) * 4 - Len(a.a))

RECURSIVE EncodeArgs(_)
EncodeArgs(args) ==
    IF args = <<>> THEN <<>> ELSE EncodeArg(Head(args)) \o EncodeArgs(Tail(args))

\* The total length write_message stores in the header: a u16 in the narrow
\* family (8 + bytes_len as u16), a u32 in the wide one.
MessageSize(f, args) ==
    IF f = "narrow" THEN (NarrowHeader + (BytesLen(args) % 65536)) % 65536
                    ELSE WideHeader + BytesLen(args)

\* The header bytes: narrow = handle u32, then (size << 16) | op as one u32;
\* wide = handle u64, size u32, opcode u32.
EncodeHeader(f, obj, size, op) ==
    IF f = "narrow"
    THEN U32Bytes(U32OfNat(obj)) \o U32Bytes([hi |-> size, lo |-> op])
    ELSE U64Bytes(U64OfNat(obj)) \o U32Bytes(U32OfNat(size)) \o U32Bytes(U32OfNat(op))

\* A narrow header read with the opcode in the high half of the word and
\* the length in the low half.
ParseHeaderSwapped(f, b) ==
    IF f = "narrow"
    THEN [obj |-> U32From(SubSeq(b, 1, 4)),
          size |-> U32From(SubSeq(b, 5, 8)).lo, op |-> U32From(SubSeq(b, 5, 8)).hi]
    ELSE [obj |-> U64From(SubSeq(b, 1, 8)),
          size |-> U32From(SubSeq(b, 9, 12)).lo, op |-> U32From(SubSeq(b, 13, 16)).lo]

\* What read_message parses from the peeked header bytes.
ParseHeader(f, b) ==
    IF f = "narrow"
    THEN LET size_op == U32From(SubSeq(b, 5, 8))
         IN  [obj |-> U32From(SubSeq(b, 1, 4)), size |-> size_op.hi, op |-> size_op.lo]
    ELSE LET size == U32From(SubSeq(b, 9, 12))
             op == U32From(SubSeq(b, 13, 16))
         IN  [obj |-> U64From(SubSeq(b, 1, 8)),
              size |-> IF size.hi = 0 THEN size.lo ELSE 65536,
              op |-> IF op.hi = 0 THEN op.lo ELSE 65536]

\* ------------------------------------------------------------- SplitSlice
ViewLen(v) == Len(v[1]) + Len(v[2])

\* SplitSlice::advance(n), for n within the view.
ViewAdvance(v, n) ==
    IF n > Len(v[1]) THEN <<<<>>, Drop(v[2], n - Len(v[1]))>>
                     ELSE <<Drop(v[1], n), v[2]>>

\* read_exact of n bytes through SplitSlice::read.  A short read ends in
\* UnexpectedEof ("none"), or in copy_from_slice's length-mismatch panic
\* when the short read reaches into the second slice.
ViewReadExact(v, n) ==
    IF n <= ViewLen(v)
    THEN [st |-> "ok", bytes |-> Take(v[1] \o v[2], n), view |-> ViewAdvance(v, n)]
    ELSE IF ViewLen(v) > Len(v[1])
         THEN [st |-> "panic", bytes |-> <<>>, view |-> v]
         ELSE [st |-> "none", bytes |-> <<>>, view |-> <<<<>>, <<>>>>]

\* ----------------------------------------------------------- Message::read_*
\* Each read_* is read_exact followed by a conversion of the bytes read; the
\* conversion is an operator of the read's result r = [st, bytes, view].
UintOf(r) ==
    [st |-> r.st, view |-> r.view,
     val |-> IF r.st = "ok" THEN U32From(r.bytes) ELSE U32OfNat(0)]

\* Message::read_uint (read_uint32 in crates/ei).
ReadUint(v) == UintOf(ViewReadExact(v, 4))

Uint64Of(r) ==
    [st |-> r.st, view |-> r.view,
     val |-> IF r.st = "ok" THEN U64From(r.bytes) ELSE U64OfNat(0)]

\* Message::read_uint64.
ReadUint64(v) == Uint64Of(ViewReadExact(v, 8))

\* A wire length as a number; one that no buffered message can hold is
\* 65536 (the view is shorter, so the read that follows is short).
WireLen(w) == IF w.hi = 0 THEN w.lo ELSE 65536

\* Bytes read_array takes after the length word.
ArrayReadLen(length) == (length \div 4) * 4

\* Bytes read_string takes after a non-zero length word.
StringReadLen(length) == ((length + 3) \div 4) * 4

\* buf.truncate(length - 1); String::from_utf8(buf)
StringOf(length, r) ==
    [st |-> r.st, view |-> r.view,
     val |-> IF r.st = "ok" THEN ArgString(Take(r.bytes, Min(length - 1, Len(r.bytes))))
                            ELSE ArgStringNone]

\* read_string after its length word l was read.
StringAfter(l) ==
    IF l.st # "ok" \/ WireLen(l.val) = 0
    THEN [st |-> l.st, view |-> l.view, val |-> ArgStringNone]
    ELSE StringOf(WireLen(l.val),
                  ViewReadExact(l.view, StringReadLen(WireLen(l.val))))

\* Message::read_string.
ReadString(v) == StringAfter(ReadUint(v))

\* buf.truncate(length)
ArrayOf(length, r) ==
    [st |-> r.st, view |-> r.view,
     val |-> IF r.st = "ok" THEN ArgArray(Take(r.bytes, Min(length, Len(r.bytes))))
                            ELSE ArgArray(<<>>)]

\* read_array after its length word l was read.
ArrayAfter(l) ==
    IF l.st # "ok"
    THEN [st |-> l.st, view |-> l.view, val |-> ArgArray(<<>>)]
    ELSE ArrayOf(WireLen(l.val),
                 ViewReadExact(l.view, ArrayReadLen(WireLen(l.val))))

\* Message::read_array.
ReadArray(v) == ArrayAfter(ReadUint(v))

\* read_int / read_fixed / read_float / read_int64: the unsigned read, cast.
CastTo(k, r) ==
    [st |-> r.st, view |-> r.view,
     val |-> CASE k = "Int" -> ArgInt(I32OfU32(r.val))
               [] k = "Fixed" -> ArgFixed(I32OfU32(r.val))
               [] k = "Uint" -> ArgUint(r.val)
               [] k = "Float" -> ArgFloat(r.val)
               [] k = "Int64" -> ArgInt64(r.val)
               [] k = "Uint64" -> ArgUint64(r.val)]

\* The read_* operation a generated decoder uses for an argument of kind k.
ReadArg(k, v) ==
    CASE k \in {"Int", "Fixed", "Uint", "Float"} -> CastTo(k, ReadUint(v))
      [] k \in {"Int64", "Uint64"} -> CastTo(k, ReadUint64(v))
      [] k = "String" -> ReadString(v)
      [] k = "Array" -> ReadArray(v)

\* Message::read_fd: takes the fd at the back of the incoming queue.
ReadFd(fdq) ==
    IF fdq = <<>> THEN [st |-> "none", fd |-> 0, fdq |-> fdq]
    ELSE [st |-> "ok", fd |-> fdq[Len(fdq)], fdq |-> SubSeq(fdq, 1, Len(fdq) - 1)]

\* ------------------------------------------------------- the test protocol
\* The events the sender marshals and the receiver's decoder unmarshals:
\* the argument kinds of each opcode, as a generated codec lists them.
\*   0: no arguments (a header-only message)
\*   1: fd                  2: array, fd, fd
Opcodes == {0, 1, 2}

Schema(op) ==
    CASE op = 0 -> <<>>
      [] op = 1 -> <<"Fd">>
      [] op = 2 -> <<"Array", "Fd", "Fd">>
      [] OTHER -> <<>>

\* The opcodes the sender uses: those of the receiver's protocol and one the
\* receiver's decoder does not know (a request of a later protocol version).
SentOpcodes == Opcodes \cup {Cardinality(Opcodes)}

\* The obj passed to write_message with the sender's n-th message: one
\* handle per message (255, 256: the second spans two bytes).
FreshObj(n) == 254 + n

RECURSIVE CountFds(_)
CountFds(kinds) ==
    IF kinds = <<>> THEN 0
    ELSE (IF Head(kinds) = "Fd" THEN 1 ELSE 0) + CountFds(Tail(kinds))

RECURSIVE TotalFds(_)
TotalFds(msgs) ==
    IF msgs = <<>> THEN 0 ELSE Len(Head(msgs).fds) + TotalFds(Tail(msgs))

\* The handle as read_message reports it: a u32 or a u64.
ObjWord(f, obj) == IF f = "narrow" THEN U32OfNat(obj) ELSE U64OfNat(obj)

\* gen_message_marshaler_variant: the non-fd arguments in order, the fd
\* arguments in order.  The fds are freshly opened: numbered from `first`.
\* The uint carries the handle, the array its low byte.
Marshal(f, obj, op, first) ==
    LET kinds == Schema(op)
        vals == SelectSeq(kinds, LAMBDA k : k # "Fd")
    IN  [obj |-> ObjWord(f, obj), op |-> op,
         args |-> [i \in 1..Len(vals) |->
                     IF vals[i] = "Uint" THEN ArgUint(U32OfNat(obj))
                                         ELSE ArgArray(<<obj % 256>>)],
         fds |-> [i \in 1..CountFds(kinds) |-> first + i - 1]]

\* The decoder's progress d (the arguments and fds read so far, what is left
\* of the view and of the incoming fd queue, "ok" until a read fails) after
\* a read_fd with result r.
AfterFd(d, r) ==
    [d EXCEPT !.st = r.st, !.fdq = r.fdq,
              !.fds = IF r.st = "ok" THEN Append(d.fds, r.fd) ELSE d.fds]

\* The decoder's progress after a read_* with result r.
AfterArg(d, r) ==
    [d EXCEPT !.st = r.st, !.view = r.view,
              !.args = IF r.st = "ok" THEN Append(d.args, r.val) ELSE d.args]

\* One argument of gen_message_reader_variant: its read, with `?`.
DecodeArg(kind, d) ==
    IF d.st # "ok" THEN d
    ELSE IF kind = "Fd" THEN AfterFd(d, ReadFd(d.fdq))
    ELSE AfterArg(d, ReadArg(kind, d.view))

RECURSIVE DecodeArgs(_, _)
\* gen_message_reader_variant: the arguments in declaration order.
DecodeArgs(kinds, d) ==
    IF kinds = <<>> THEN d ELSE DecodeArgs(Tail(kinds), DecodeArg(Head(kinds), d))

\* gen_message_unmarshaler: match on the opcode, None for an unknown one.
Unmarshal(hdr, view, fdq) ==
    IF hdr.op \in Opcodes
    THEN DecodeArgs(Schema(hdr.op),
                    [st |-> "ok", args |-> <<>>, fds |-> <<>>, view |-> view, fdq |-> fdq])
    ELSE [st |-> "none", args |-> <<>>, fds |-> <<>>, view |-> view, fdq |-> fdq]

\* ------------------------------------------------------------------ state
VARIABLES
    family,      \* which Connection type both ends use
    write_buf,   \* sender: Connection.write_buf
    write_fds,   \* sender: Connection.write_fds
    sock,        \* kernel: bytes in flight, each with the fds attached to it
    read_buf,    \* receiver: Connection.read_buf
    read_fds,    \* receiver: Connection.read_fds
    fb_pc,       \* sender: "idle", or "poll" inside flush_blocking
    rb_pc,       \* receiver: "idle", or "poll" inside read_blocking
    rstate,      \* receiver: "run" or "panic"
    last,        \* the last call made on either end and what it returned
    sent,        \* history: the messages passed to write_message
    delivered,   \* history: the messages read_message returned
    dec,         \* history: decoder invocations, and the view of the last
    c_pc,        \* codec run: "off", or "arg" -> "written" -> "decoded"
    c_arg,       \* codec run: the argument passed to write_message
    c_out        \* codec run: what the matching read_* returned

\* The variables of a codec run.
cvars == <<c_pc, c_arg, c_out>>

\* A run of a scanner's Config: builder calls, then generate.
VARIABLES
    scanner,     \* "wayland" (wayland_scanner) or "ei" (ei_scanner); "off"
    declared,    \* the parsed protocols: each interface's version attribute
    uses,        \* the parsed protocols: the typed argument, if any, that a
                 \* message of one interface has for another
    globals,     \* Config.globals / Config.interfaces: (name, version) pairs
    resolved     \* what generate came to: the version map, or an abort

rvars == <<scanner, declared, uses, globals, resolved>>

\* One interface on its way through preprocess_interfaces.
VARIABLES
    iface,       \* the parsed Interface: requests, events, enums
    pruned       \* the Interface preprocess_interfaces returns, once done

pvars == <<iface, pruned>>

\* A ParseContext reading one protocol file.
VARIABLES
    parse,       \* where ParseContext::parse stands: the element functions
                 \* on the call stack, and whether it has returned
    event        \* the txml::Event that self.next() returned last

xvars == <<parse, event>>

\* One call of a function that has no state of its own.
VARIABLES
    call,        \* the function and the arguments it is called with
    result       \* what it returned, once it has

fvars == <<call, result>>

svars == <<rvars, pvars, xvars, fvars>>

\* A WaylandConnection of the client, and the compositor's end of its socket.
VARIABLES
    ids,         \* WaylandConnection.ids, an IdAllocator
    held,        \* history: the ids the callers hold, each with the data
                 \* given to the allocate that returned it
    roundtrip,   \* where WaylandConnection::roundtrip stands, with
                 \* sync_callback and sync_done
    peer         \* the compositor's end of the socket: "open" or "closed"

wvars == <<ids, held, roundtrip, peer>>

vars == <<family, write_buf, write_fds, sock, read_buf, read_fds, fb_pc, rb_pc,
          rstate, last, sent, delivered, dec, cvars, svars, wvars>>

NoCall == [op |-> "none", val |-> "none"]

\* The word that follows the argument under test in a codec run.
Marker == ArgUint([hi |-> 42405, lo |-> 42330])

NoOut == [st |-> "none", val |-> Marker, used |-> 0, next |-> Marker]

\* Both ends right after Connection::new.
Fresh ==
    /\ write_buf = CircBufNew
    /\ read_buf = CircBufNew
    /\ write_fds = <<>>
    /\ read_fds = <<>>
    /\ sock = <<>>
    /\ fb_pc = "idle"
    /\ rb_pc = "idle"
    /\ rstate = "run"
    /\ last = NoCall
    /\ sent = <<>>
    /\ delivered = <<>>
    /\ dec = [calls |-> 0, view |-> 0]

\* The interfaces of the protocols handed to a scanner, in the order of a
\* BTreeMap's keys.
Names == <<"A", "B", "C", "D">>

Interfaces == {Names[i] : i \in 1..Len(Names)}

\* No interface in the version map yet.
NoneWanted == [st |-> "ok", in |-> {}, real |-> {}, v |-> [n \in Interfaces |-> 0]]

\* generate has not run.
NotGenerated == [NoneWanted EXCEPT !.st = "none"]

\* An interface without messages and enums.
EmptyInterface == [version |-> 0, requests |-> <<>>, events |-> <<>>, enums |-> <<>>]

\* ParseContext { parser: txml::Parser::new(&text), attrs: None }.
ParserNew ==
    /\ parse = [st |-> "scan", stack |-> <<>>]
    /\ event = [k |-> "None", name |-> "", attrs |-> {}]

\* No Config is at work.
ResolverOff ==
    /\ scanner = "off"
    /\ declared = [n \in Interfaces |-> 0]
    /\ uses = <<>>
    /\ globals = {}
    /\ resolved = NotGenerated

\* No interface is being pruned.
PrunerOff ==
    /\ iface = EmptyInterface
    /\ pruned = [done |-> FALSE, out |-> EmptyInterface]

\* No function is being called.
FunctionOff ==
    /\ call = [fn |-> "none"]
    /\ result = [st |-> "none"]

\* No scanner runs.
ScannerOff == ResolverOff /\ PrunerOff /\ ParserNew /\ FunctionOff

\* IdAllocator::new.
IdAllocatorNew == [next |-> 1, free |-> <<>>, data |-> <<>>]

\* WaylandConnection before any object is created, the compositor's end
\* open.
ClientNew ==
    /\ ids = IdAllocatorNew
    /\ held = {}
    /\ roundtrip = [pc |-> "off", sync_done |-> FALSE, sync_callback |-> 0]
    /\ peer = "open"

\* No connection is at work.
TransportOff ==
    /\ family = "narrow"
    /\ Fresh
    /\ ClientNew
    /\ c_pc = "off" /\ c_arg = Marker /\ c_out = NoOut

\* Connection::new on both ends of a fresh socket pair.
Init ==
    /\ family \in Families
    /\ Fresh
    /\ ScannerOff
    /\ ClientNew
    /\ c_pc = "off"
    /\ c_arg = Marker
    /\ c_out = NoOut

\* ------------------------------------------------------------ write_message
\* A write_message without the assertion.
WriteAcceptsAll(f, args) == TRUE

\* assert!(bytes_len < u16::MAX - 8) / assert!(bytes_len < u32::MAX - 16).
WriteAccepts(f, args) ==
    IF f = "narrow" THEN BytesLen(args) < 65535 - NarrowHeader ELSE TRUE

\* A write_message that never grows the buffer.
GrowNever(b, size) == b

RECURSIVE GrowFor(_, _)
\* while self.write_buf.avail() < size { grow() }
GrowFor(b, size) == IF CAvail(b) < size THEN GrowFor(CGrow(b), size) ELSE b

\* The outgoing buffer after write_message.
WriteMessageBuf(f, b, m, obj) ==
    LET size == MessageSize(f, m.args)
    IN  CWriteAll(GrowFor(b, size),
                  EncodeHeader(f, obj, size, m.op) \o EncodeArgs(m.args))

WriteMessage(obj, op) ==
    /\ fb_pc = "idle"
    /\ Len(sent) < MaxMsgs
    /\ \E m \in {Marshal(family, obj, op, TotalFds(sent) + 1)} :
           /\ WriteAccepts(family, m.args)
           /\ write_fds' = write_fds \o m.fds
           /\ write_buf' = WriteMessageBuf(family, write_buf, m, obj)
           /\ sent' = Append(sent, m)
    /\ last' = [op |-> "write_message", val |-> "()"]
    /\ UNCHANGED <<cvars, svars, wvars, family, sock, read_buf, read_fds, fb_pc, rb_pc, rstate,
                   delivered, dec>>

\* -------------------------------------------------------------------- flush
\* The receiving process is gone (it panicked): its socket is closed.
ReceiverGone == rstate # "run"

\* Room left in the kernel's socket buffer.
SendFree == SockCap - Len(sock)

\* sendmsg(DONTWAIT): an error, or the number of bytes accepted.
SendMsg(len, free, gone) ==
    IF gone THEN [err |-> "EPIPE", n |-> 0]
    ELSE IF free = 0 THEN [err |-> "WOULDBLOCK", n |-> 0]
    ELSE [err |-> "", n |-> Min(len, free)]

\* write_to_socket: one sendmsg of the buffered bytes with the fds as
\* ancillary data (they travel with the first byte), then advance_read_raw.
WriteToSocket(b, fds, sk, gone) ==
    LET r == SendMsg(CLen(b), SockCap - Len(sk), gone)
        bytes == Take(b.data, r.n)
    IN  IF r.err # "" THEN [res |-> r.err, buf |-> b, sock |-> sk]
        ELSE [res |-> IF r.n > 0 THEN "Ok(true)" ELSE "Ok(false)",
              buf |-> CAdvanceRead(b, r.n),
              sock |-> sk \o [i \in 1..r.n |->
                                [b |-> bytes[i], fds |-> IF i = 1 THEN fds ELSE <<>>]]]

IsOk(res) == res \in {"Ok(true)", "Ok(false)"}

\* A flush_nonblocking that clears the fd queue before it looks at the
\* result of the send.
FlushClearingFirst(b, fds, sk, gone) ==
    IF CIsEmpty(b) THEN [res |-> "Ok(true)", buf |-> b, fds |-> fds, sock |-> sk]
    ELSE [res |-> WriteToSocket(b, fds, sk, gone).res,
          buf |-> WriteToSocket(b, fds, sk, gone).buf,
          fds |-> <<>>,
          sock |-> WriteToSocket(b, fds, sk, gone).sock]

\* A flush_nonblocking that sends the fds and keeps them queued.
FlushKeepingFds(b, fds, sk, gone) ==
    IF CIsEmpty(b) THEN [res |-> "Ok(true)", buf |-> b, fds |-> fds, sock |-> sk]
    ELSE [res |-> WriteToSocket(b, fds, sk, gone).res,
          buf |-> WriteToSocket(b, fds, sk, gone).buf,
          fds |-> fds,
          sock |-> WriteToSocket(b, fds, sk, gone).sock]

\* Connection::flush_nonblocking.
FlushNonblockingOutcome(b, fds, sk, gone) ==
    IF CIsEmpty(b) THEN [res |-> "Ok(true)", buf |-> b, fds |-> fds, sock |-> sk]
    ELSE LET w == WriteToSocket(b, fds, sk, gone)
         IN  [res |-> w.res, buf |-> w.buf,
              fds |-> IF IsOk(w.res) THEN <<>> ELSE fds,
              sock |-> w.sock]

FlushNonblocking ==
    /\ fb_pc = "idle"
    /\ \E o \in {FlushNonblockingOutcome(write_buf, write_fds, sock, ReceiverGone)} :
           /\ write_buf' = o.buf
           /\ write_fds' = o.fds
           /\ sock' = o.sock
           /\ last' = [op |-> "flush_nonblocking", val |-> o.res]
    /\ UNCHANGED <<cvars, svars, wvars, family, read_buf, read_fds, fb_pc, rb_pc, rstate, sent,
                   delivered, dec>>

\* A flush_blocking that hands would-block to its caller.
FlushBlockingGivingUp(res) == [pc |-> "idle", val |-> res]

\* What flush_blocking does with one flush_nonblocking result: the program
\* counter after it and the value returned, "" while it goes on to poll.
FlushBlockingMatch(res) ==
    IF IsOk(res) THEN [pc |-> "idle", val |-> res]
    ELSE IF res = "WOULDBLOCK" THEN [pc |-> "poll", val |-> ""]
    ELSE [pc |-> "idle", val |-> res]

\* One turn of flush_blocking's loop.
FlushBlockingTurn ==
    \E o \in {FlushNonblockingOutcome(write_buf, write_fds, sock, ReceiverGone)} :
        /\ write_buf' = o.buf
        /\ write_fds' = o.fds
        /\ sock' = o.sock
        /\ fb_pc' = FlushBlockingMatch(o.res).pc
        /\ last' = [op |-> "flush_blocking", val |-> FlushBlockingMatch(o.res).val]
        /\ UNCHANGED <<cvars, svars, wvars, family, read_buf, read_fds, rb_pc, rstate, sent,
                       delivered, dec>>

\* flush_blocking is called.
FlushBlockingCall == fb_pc = "idle" /\ FlushBlockingTurn

\* poll(OUT | HUP | ERR) returns and the loop goes round.
FlushBlockingWake ==
    /\ fb_pc = "poll"
    /\ SendFree > 0 \/ ReceiverGone
    /\ FlushBlockingTurn

\* poll itself fails (a signal: EINTR) and `?` returns the error.
FlushBlockingPollErr ==
    /\ fb_pc = "poll"
    /\ fb_pc' = "idle"
    /\ last' = [op |-> "flush_blocking", val |-> "EINTR"]
    /\ UNCHANGED <<cvars, svars, wvars, family, write_buf, write_fds, sock, read_buf, read_fds,
                   rb_pc, rstate, sent, delivered, dec>>

\* ------------------------------------------------------------------ receive
RECURSIVE FdsOf(_)
\* The fds carried by a run of received bytes, in the kernel's order.
FdsOf(chunk) == IF chunk = <<>> THEN <<>> ELSE Head(chunk).fds \o FdsOf(Tail(chunk))

\* read_from_socket when recvmsg delivers the first n bytes in flight.
ReadFromSocket(b, fdq, sk, n) ==
    [res |-> IF n > 0 THEN "Ok(true)" ELSE "Ok(false)",
     buf |-> CAdvanceWrite(b, [i \in 1..n |-> sk[i].b]),
     fdq |-> fdq \o FdsOf(Take(sk, n)),
     sock |-> Drop(sk, n)]

\* The byte counts recvmsg may return when `most` bytes are in flight and
\* fit the free region: 0 only when nothing fits.
RecvCounts(most) ==
    IF most = 0 THEN {0}
    ELSE {n \in 1..most : n >= most - RecvHoldBack}

\* Connection::read_nonblocking.  recvmsg fails with would-block when nothing
\* is in flight, returns 0 when the free region is empty, and otherwise
\* delivers what is in flight and fits, or a little less.
ReadNonblocking ==
    /\ rstate = "run"
    /\ rb_pc = "idle"
    /\ IF sock = <<>>
       THEN /\ last' = [op |-> "read_nonblocking", val |-> "WOULDBLOCK"]
            /\ UNCHANGED <<read_buf, read_fds, sock>>
       ELSE \E n \in RecvCounts(Min(Len(sock), CAvail(read_buf))) :
              \E o \in {ReadFromSocket(read_buf, read_fds, sock, n)} :
                  /\ read_buf' = o.buf
                  /\ read_fds' = o.fdq
                  /\ sock' = o.sock
                  /\ last' = [op |-> "read_nonblocking", val |-> o.res]
    /\ UNCHANGED <<cvars, svars, wvars, family, write_buf, write_fds, fb_pc, rb_pc, rstate, sent,
                   delivered, dec>>

\* What read_blocking does with one read_nonblocking result: the program
\* counter after it and the value returned, "" while it goes on to poll.
ReadBlockingMatch(res) ==
    IF IsOk(res) THEN [pc |-> "idle", val |-> res]
    ELSE IF res = "WOULDBLOCK" THEN [pc |-> "poll", val |-> ""]
    ELSE [pc |-> "idle", val |-> res]

\* One turn of read_blocking's loop.
ReadBlockingTurn ==
    /\ rstate = "run"
    /\ IF sock = <<>>
       THEN /\ rb_pc' = ReadBlockingMatch("WOULDBLOCK").pc
            /\ last' = [op |-> "read_blocking", val |-> ReadBlockingMatch("WOULDBLOCK").val]
            /\ UNCHANGED <<read_buf, read_fds, sock>>
       ELSE \E n \in RecvCounts(Min(Len(sock), CAvail(read_buf))) :
              \E o \in {ReadFromSocket(read_buf, read_fds, sock, n)} :
                  /\ read_buf' = o.buf
                  /\ read_fds' = o.fdq
                  /\ sock' = o.sock
                  /\ rb_pc' = ReadBlockingMatch(o.res).pc
                  /\ last' = [op |-> "read_blocking", val |-> ReadBlockingMatch(o.res).val]
    /\ UNCHANGED <<cvars, svars, wvars, family, write_buf, write_fds, fb_pc, rstate, sent,
                   delivered, dec>>

\* read_blocking is called.
ReadBlockingCall == rb_pc = "idle" /\ ReadBlockingTurn

\* poll(IN | HUP | ERR) returns and the loop goes round.
ReadBlockingWake ==
    /\ rb_pc = "poll"
    /\ sock # <<>>
    /\ ReadBlockingTurn

\* poll itself fails (a signal: EINTR) and `?` returns the error.
ReadBlockingPollErr ==
    /\ rb_pc = "poll"
    /\ rb_pc' = "idle"
    /\ last' = [op |-> "read_blocking", val |-> "EINTR"]
    /\ UNCHANGED <<cvars, svars, wvars, family, write_buf, write_fds, sock, read_buf, read_fds,
                   fb_pc, rstate, sent, delivered, dec>>

\* ------------------------------------------------------------- read_message
\* if self.read_buf.len() < 2 (crates/wayland) / < 4 (crates/ei).
TooShortToPeek(f, len) == len < PeekMin(f)

\* A read_message without the completeness test: it goes on to decode
\* whatever is buffered.
FrameNeverWaited(len, size) == TRUE

\* if self.read_buf.len() < size { return None }: the frame is complete.
FrameComplete(len, size) == ~(len < size)

\* A read_message that advances by what the decoder read.
AdvanceByUsed(size, used) == used

\* The argument of the final advance_read_raw: the declared size, whatever
\* the decoder read (used = header + bytes the decoder took).
ReadAdvance(size, used) == size

\* read_message returning None, or panicking, before the decoder runs.
Quiet(ret, b, fdq) ==
    [ret |-> ret, buf |-> b, fdq |-> fdq, msg |-> <<>>, calls |-> 0, view |-> 0]

\* A read_message that answers None when the decoder fails.
DecodedOrNone(f, b, hdr, n, d) ==
    [ret |-> IF d.st = "ok" THEN "Some" ELSE "None",
     buf |-> IF d.st = "ok" THEN CAdvanceRead(b, hdr.size) ELSE b,
     fdq |-> d.fdq,
     msg |-> IF d.st = "ok"
             THEN <<[obj |-> hdr.obj, op |-> hdr.op, args |-> d.args, fds |-> d.fds]>>
             ELSE <<>>,
     calls |-> 1, view |-> n]

\* read_message once the decoder has returned d for the frame of header hdr,
\* whose payload view held n bytes: .expect("decoder failed!"), then
\* advance_read_raw and Some(msg).
Decoded(f, b, hdr, n, d) ==
    IF d.st = "ok"
    THEN [ret |-> "Some",
          buf |-> CAdvanceRead(b, ReadAdvance(hdr.size, HeaderSize(f) + n - ViewLen(d.view))),
          fdq |-> d.fdq,
          msg |-> <<[obj |-> hdr.obj, op |-> hdr.op, args |-> d.args, fds |-> d.fds]>>,
          calls |-> 1, view |-> n]
    ELSE [ret |-> "panic", buf |-> b, fdq |-> d.fdq, msg |-> <<>>,
          calls |-> 1, view |-> n]

\* read_message from get_bytes_upto_size on: the view is advanced past the
\* header and handed to the decoder with the fd queue.
DecodeFrame(f, b, fdq, hdr, view) ==
    Decoded(f, b, hdr, ViewLen(view), Unmarshal(hdr, view, fdq))

\* A read_message that answers None to a header declaring less than a header.
FramedLenient(f, b, fdq, hdr) ==
    IF ~FrameComplete(CLen(b), hdr.size) \/ hdr.size < HeaderSize(f)
    THEN Quiet("None", b, fdq)
    ELSE DecodeFrame(f, b, fdq, hdr,
                     ViewAdvance(CGetBytesUpto(b, hdr.size), HeaderSize(f)))

\* read_message once the header hdr has been peeked.
FramedBy(f, b, fdq, hdr) ==
    IF ~FrameComplete(CLen(b), hdr.size) THEN Quiet("None", b, fdq)
    ELSE IF hdr.size < HeaderSize(f)
    THEN \* data.advance(8): slice index out of range
         Quiet("panic", b, fdq)
    ELSE DecodeFrame(f, b, fdq, hdr,
                     ViewAdvance(CGetBytesUpto(b, hdr.size), HeaderSize(f)))

\* Connection::read_message with the generated decoder: what it returns
\* ("None", "Some" or "panic"), the buffer and fd queue it leaves, the
\* message if any, and the decoder's invocation (how often, on how many
\* payload bytes).
ReadMessageOutcome(f, b, fdq) ==
    IF TooShortToPeek(f, CLen(b)) THEN Quiet("None", b, fdq)
    ELSE IF CLen(b) < HeaderSize(f)
    THEN \* reader_peek().read_exact(&mut buf).unwrap()
         Quiet("panic", b, fdq)
    ELSE FramedBy(f, b, fdq, ParseHeader(f, Take(b.data, HeaderSize(f))))

ReadMessage ==
    /\ rstate = "run"
    /\ rb_pc = "idle"
    /\ \E o \in {ReadMessageOutcome(family, read_buf, read_fds)} :
           /\ read_buf' = o.buf
           /\ read_fds' = o.fdq
           /\ last' = [op |-> "read_message", val |-> o.ret]
           /\ rstate' = IF o.ret = "panic" THEN "panic" ELSE "run"
           /\ delivered' = delivered \o o.msg
           /\ dec' = IF o.calls = 0 THEN dec
                     ELSE [calls |-> dec.calls + o.calls, view |-> o.view]
    /\ UNCHANGED <<cvars, svars, wvars, family, write_buf, write_fds, sock, fb_pc, rb_pc, sent>>

\* ------------------------------------------------------------ specification
Next ==
    \/ \E op \in SentOpcodes : WriteMessage(FreshObj(Len(sent) + 1), op)
    \/ FlushNonblocking
    \/ FlushBlockingCall
    \/ FlushBlockingWake
    \/ FlushBlockingPollErr
    \/ ReadNonblocking
    \/ ReadBlockingCall
    \/ ReadBlockingWake
    \/ ReadBlockingPollErr
    \/ ReadMessage

Spec == Init /\ [][Next]_vars

\* A message of the test protocol's opcode 2 whose array is so long that
\* the message is at least as large as a new CircBuf.
LargeMessage(f, obj, first) ==
    [obj |-> ObjWord(f, obj), op |-> 2,
     args |-> <<ArgArray(Zeros(BufCap - 12))>>,
     fds |-> <<first, first + 1>>]

\* write_message with that message.
WriteLargeMessage(obj) ==
    /\ fb_pc = "idle"
    /\ Len(sent) < MaxMsgs
    /\ \E m \in {LargeMessage(family, obj, TotalFds(sent) + 1)} :
           /\ WriteAccepts(family, m.args)
           /\ write_fds' = write_fds \o m.fds
           /\ write_buf' = WriteMessageBuf(family, write_buf, m, obj)
           /\ sent' = Append(sent, m)
    /\ last' = [op |-> "write_message", val |-> "()"]
    /\ UNCHANGED <<cvars, svars, wvars, family, sock, read_buf, read_fds, fb_pc, rb_pc, rstate,
                   delivered, dec>>

\* The sender writes large messages and flushes; the receiver receives and
\* reads.
LargeNext ==
    \/ WriteLargeMessage(FreshObj(Len(sent) + 1))
    \/ FlushNonblocking
    \/ ReadNonblocking
    \/ ReadMessage

LargeSpec == Init /\ [][LargeNext]_vars

\* The peer is some other program: it sends a header of opcode 0 that
\* declares any total length up to a header's, and nothing after it.
PeerSends(size) ==
    /\ Len(sent) < MaxMsgs
    /\ Len(sock) + HeaderSize(family) <= SockCap
    /\ sock' = sock \o [i \in 1..HeaderSize(family) |->
                           [b |-> EncodeHeader(family, FreshObj(Len(sent) + 1), size, 0)[i],
                            fds |-> <<>>]]
    /\ sent' = Append(sent, [obj |-> ObjWord(family, FreshObj(Len(sent) + 1)), op |-> 0,
                             args |-> <<>>, fds |-> <<>>])
    /\ last' = [op |-> "peer_sends", val |-> "Ok"]
    /\ UNCHANGED <<cvars, svars, wvars, family, write_buf, write_fds, read_buf, read_fds, fb_pc,
                   rb_pc, rstate, delivered, dec>>

\* Such a peer sends; the receiver receives and reads.
PeerNext ==
    \/ \E size \in 0..WideHeader : size <= HeaderSize(family) /\ PeerSends(size)
    \/ ReadNonblocking
    \/ ReadMessage

PeerSpec == Init /\ [][PeerNext]_vars

\* ------------------------------------------------------------ codec runs
\* One argument is passed to write_message on a fresh connection, followed
\* by a marker word, and the payload write_message produced is read back
\* with the matching Message::read_* and then read_uint for the marker.

\* i32 boundary values.
CodecI32 == {-2147483647 - 1, -1, 0, 1, 2147483647}

\* u32 boundary values, and the bit patterns of 1.0f32 and of a NaN.
CodecU32 ==
    {U32OfNat(0), U32OfNat(1), [hi |-> 32768, lo |-> 0], [hi |-> 65535, lo |-> 65535],
     [hi |-> 16256, lo |-> 0], [hi |-> 32704, lo |-> 1]}

\* u64 / i64 boundary bit patterns.
CodecU64 ==
    {[hi |-> h, lo |-> l] : h \in {U32OfNat(0), [hi |-> 32768, lo |-> 0], [hi |-> 65535, lo |-> 65535]},
                            l \in {U32OfNat(0), U32OfNat(1), [hi |-> 65535, lo |-> 65535]}}

\* Byte strings of up to MaxLen bytes over the given bytes.
BytesUpTo(alphabet) == UNION {[1..n -> alphabet] : n \in 0..MaxLen}

\* The arguments a family's Arg enum can carry.
CodecArgs(f) ==
    {ArgInt(v) : v \in CodecI32} \cup {ArgUint(w) : w \in CodecU32}
        \cup {ArgString(str) : str \in BytesUpTo({97, 122})} \cup {ArgStringNone}
        \cup {ArgArray(a) : a \in BytesUpTo({0, 255})}
        \cup (IF f = "narrow"
              THEN {ArgFixed(v) : v \in CodecI32}
              ELSE {ArgFloat(w) : w \in CodecU32}
                       \cup {ArgInt64(q) : q \in CodecU64}
                       \cup {ArgUint64(q) : q \in CodecU64})

CodecInit ==
    /\ family \in Families
    /\ Fresh
    /\ ScannerOff
    /\ ClientNew
    /\ c_pc = "arg"
    /\ c_arg \in CodecArgs(family)
    /\ c_out = NoOut

\* write_message(obj, 0, &[arg, marker], []).
CodecWrite ==
    /\ c_pc = "arg"
    /\ WriteAccepts(family, <<c_arg, Marker>>)
    /\ write_buf' = WriteMessageBuf(family, write_buf,
                                    [op |-> 0, args |-> <<c_arg, Marker>>], FreshObj(1))
    /\ c_pc' = "written"
    /\ UNCHANGED <<svars, wvars, family, write_fds, sock, read_buf, read_fds, fb_pc, rb_pc, rstate,
                   last, sent, delivered, dec, c_arg, c_out>>

\* What reading the argument, then the marker, gave: r is the argument's
\* read from the payload view, m the read_uint after it.
CodecResult(view, r, m) ==
    [st |-> r.st, val |-> r.val, used |-> ViewLen(view) - ViewLen(r.view),
     next |-> IF m.st = "ok" THEN ArgUint(m.val) ELSE ArgStringNone]

\* The matching read_* on the payload view, then read_uint.
CodecReadFrom(view, r) == CodecResult(view, r, ReadUint(r.view))

\* The frame of header hdr in buffer b is viewed as read_message views it
\* and the argument of kind k is read from it.
CodecDecode(f, b, hdr, k) ==
    CodecReadFrom(ViewAdvance(CGetBytesUpto(b, hdr.size), HeaderSize(f)),
                  ReadArg(k, ViewAdvance(CGetBytesUpto(b, hdr.size), HeaderSize(f))))

CodecRead ==
    /\ c_pc = "written"
    /\ c_out' = CodecDecode(family, write_buf,
                            ParseHeader(family, Take(write_buf.data, HeaderSize(family))),
                            c_arg.k)
    /\ c_pc' = "decoded"
    /\ UNCHANGED <<svars, wvars, family, write_buf, write_fds, sock, read_buf, read_fds, fb_pc, rb_pc,
                   rstate, last, sent, delivered, dec, c_arg>>

CodecNext ==
    \/ CodecWrite
    \/ CodecRead

CodecSpec == CodecInit /\ [][CodecNext]_vars

\* ------------------------------------------------ scanners: version map
\* The pairs (from, to) of interfaces for which the protocols may hold a
\* message of `from` with an argument typed `to`.
EdgePairs == {<<"A", "B">>, <<"A", "C">>, <<"B", "C">>, <<"C", "A">>, <<"C", "D">>}

\* What such a pair holds: no typed argument, an object argument, or a
\* new_id argument.
ArgKinds == {"none", "object", "new_id"}

Scanners == {"wayland", "ei"}

\* make_dependency_graph: new_id makes a SameVersion edge (Real in
\* ei_scanner), object an AnyVersion edge (Dummy in ei_scanner).
MakeDependencyGraph(u) ==
    [p \in Interfaces \X Interfaces |->
        IF p \notin EdgePairs \/ u[p] = "none" THEN "none"
        ELSE IF u[p] = "new_id" THEN "SameVersion" ELSE "AnyVersion"]

\* A traversal that takes each edge at its own strength.
KindOfEdge(kind, dependency_kind) == kind

\* kind.min(&dependency_kind) under the derived Ord: AnyVersion < SameVersion.
KindMin(kind, dependency_kind) ==
    IF kind = "AnyVersion" \/ dependency_kind = "AnyVersion"
    THEN "AnyVersion" ELSE "SameVersion"

\* The version the caller gave for interface n.
VersionIn(g, n) == CHOOSE v \in 1..MaxVersion : <<n, v>> \in g

Named(g) == {p[1] : p \in g}

\* An entry that treats every reach as a strong one.
WaylandEntrySame(w, dep, version, kind) ==
    [w EXCEPT !.in = @ \cup {dep},
              !.v[dep] = IF dep \in w.in /\ @ > version THEN @ ELSE version]

\* An entry that a later reach leaves as the first reach made it.
WaylandEntryKeep(w, dep, version, kind) ==
    IF dep \in w.in THEN w
    ELSE [w EXCEPT !.in = @ \cup {dep},
                   !.v[dep] = IF kind = "AnyVersion" THEN 0 ELSE version]

\* An entry that the latest strong reach overwrites.
WaylandEntryLast(w, dep, version, kind) ==
    IF kind = "AnyVersion"
    THEN IF dep \in w.in THEN w
         ELSE [w EXCEPT !.in = @ \cup {dep}, !.v[dep] = 0]
    ELSE [w EXCEPT !.in = @ \cup {dep}, !.v[dep] = version]

\* wayland_scanner's go, the entry of one dependency: a weak reach inserts
\* 0 if the entry is vacant, a strong reach inserts the version or raises
\* the entry to it.
WaylandEntry(w, dep, version, kind) ==
    IF kind = "AnyVersion"
    THEN IF dep \in w.in THEN w
         ELSE [w EXCEPT !.in = @ \cup {dep}, !.v[dep] = 0]
    ELSE IF dep \in w.in
    THEN [w EXCEPT !.v[dep] = IF @ > version THEN @ ELSE version]
    ELSE [w EXCEPT !.in = @ \cup {dep}, !.v[dep] = version]

\* ei_scanner's go, the entry of one dependency: or_insert(Dummy), or
\* insert(Real).
EiEntry(w, dep, version, kind) ==
    IF kind = "AnyVersion"
    THEN [w EXCEPT !.in = @ \cup {dep}]
    ELSE [w EXCEPT !.in = @ \cup {dep}, !.real = @ \cup {dep}]

Entry(sc, w, dep, version, kind) ==
    IF sc = "wayland" THEN WaylandEntry(w, dep, version, kind)
                      ELSE EiEntry(w, dep, version, kind)

RECURSIVE Go(_, _, _, _, _, _, _, _)
\* go(dependency_graph, wanted_interfaces, global, version, dependency_kind),
\* from the i-th possible dependency on.  Nothing stops the recursion on a
\* cycle: `left` is how many more nested calls a path without a repeated
\* interface can make, and a call beyond them never returns (the stack
\* overflows).
Go(sc, graph, w, global, version, dependency_kind, left, i) ==
    IF w.st # "ok" \/ i > Len(Names) THEN w
    ELSE IF graph[<<global, Names[i]>>] = "none"
    THEN Go(sc, graph, w, global, version, dependency_kind, left, i + 1)
    ELSE IF left = 0 THEN [NoneWanted EXCEPT !.st = "overflow"]
    ELSE Go(sc, graph,
            Go(sc, graph,
               Entry(sc, w, Names[i], version,
                     KindMin(graph[<<global, Names[i]>>], dependency_kind)),
               Names[i], version,
               KindMin(graph[<<global, Names[i]>>], dependency_kind), left - 1, 1),
            global, version, dependency_kind, left, i + 1)

\* wanted_interfaces.insert(global, version) / insert(global, Real).
InsertRoot(w, global, version) ==
    [w EXCEPT !.in = @ \cup {global}, !.real = @ \cup {global}, !.v[global] = version]

RECURSIVE Roots(_, _, _, _, _)
\* for (global, version) in &self.globals { insert; go }, from the k-th
\* entry of `order` on; an entry is <<global, version>>.
Roots(sc, graph, w, order, k) ==
    IF w.st # "ok" \/ k > Len(order) THEN w
    ELSE Roots(sc, graph,
               Go(sc, graph, InsertRoot(w, order[k][1], order[k][2]),
                  order[k][1], order[k][2], "SameVersion", Len(Names) - 1, 1),
               order, k + 1)

\* The orders in which the entries of Config.globals (a Vec) may have been
\* pushed.
PushOrders(g) ==
    {o \in [1..Cardinality(g) -> g] : \A p \in g : \E k \in 1..Cardinality(g) : o[k] = p}

\* The entries of Config.interfaces (a BTreeMap) in the order of its keys.
ByName(g) ==
    LET present == SelectSeq(Names, LAMBDA n : n \in Named(g))
    IN  [k \in 1..Len(present) |-> <<present[k], VersionIn(g, present[k])>>]

\* global_allowlist: the interfaces no SameVersion edge points to.
GlobalAllowlist(graph) ==
    {n \in Interfaces : \A from \in Interfaces : graph[<<from, n>>] # "SameVersion"}

\* The panics of the loop over the requested versions.
VersionTooHigh(d, g) == \E p \in g : d[p[1]] < p[2]

Aborted == [NoneWanted EXCEPT !.st = "panic"]

\* wayland_scanner's Config::generate up to the version map.
WaylandGenerate(d, u, g, order) ==
    IF VersionTooHigh(d, g) \/ ~(Named(g) \subseteq GlobalAllowlist(MakeDependencyGraph(u)))
    THEN Aborted
    ELSE Roots("wayland", MakeDependencyGraph(u), NoneWanted, order, 1)

\* A version map that gives a Real entry without a caller's version the
\* version 1.
EiVersionsInvented(w, g) ==
    [w EXCEPT !.v = [n \in Interfaces |->
                       IF n \notin w.real THEN 0
                       ELSE IF n \in Named(g) THEN VersionIn(g, n) ELSE 1]]

\* wanted_interface_versions: 0 for a Dummy entry, the caller's version for
\* a Real one, and a panic if the caller gave none.
EiVersions(w, g) ==
    IF w.st # "ok" THEN w
    ELSE IF ~(w.real \subseteq Named(g)) THEN Aborted
    ELSE [w EXCEPT !.v = [n \in Interfaces |->
                             IF n \in w.real THEN VersionIn(g, n) ELSE 0]]

\* ei_scanner's Config::generate up to the version map.
EiGenerate(d, u, g) ==
    IF VersionTooHigh(d, g) THEN Aborted
    ELSE EiVersions(Roots("ei", MakeDependencyGraph(u), NoneWanted, ByName(g), 1), g)

\* The variables of the connection and of the codec runs.
tvars == <<family, write_buf, write_fds, sock, read_buf, read_fds, fb_pc, rb_pc,
           rstate, last, sent, delivered, dec, cvars, wvars>>

\* The version attributes of the parsed protocols: A and D are at the newest
\* version, B and C at any.
Declarations ==
    {d \in [Interfaces -> 1..MaxVersion] : d["A"] = MaxVersion /\ d["D"] = MaxVersion}

\* What the caller may ask for: A and B at any version, C and D at the
\* newest.
Requests ==
    {p \in Interfaces \X (1..MaxVersion) : p[1] \in {"C", "D"} => p[2] = MaxVersion}

\* The protocols are parsed and a Config is made.
ResolveInit ==
    /\ TransportOff /\ PrunerOff /\ ParserNew /\ FunctionOff
    /\ scanner \in Scanners
    /\ declared \in Declarations
    /\ uses \in [EdgePairs -> ArgKinds]
    /\ globals = {}
    /\ resolved = NotGenerated

\* Config::global(name, version) / Config::interface(name, version), each
\* interface named once.
ConfigGlobal(name, version) ==
    /\ resolved.st = "none"
    /\ name \notin Named(globals)
    /\ globals' = globals \cup {<<name, version>>}
    /\ UNCHANGED <<scanner, declared, uses, resolved, tvars, pvars, xvars, fvars>>

\* Config::generate.
Generate ==
    /\ resolved.st = "none"
    /\ \/ /\ scanner = "wayland"
          /\ \E order \in PushOrders(globals) :
                resolved' = WaylandGenerate(declared, uses, globals, order)
       \/ /\ scanner = "ei"
          /\ resolved' = EiGenerate(declared, uses, globals)
    /\ UNCHANGED <<scanner, declared, uses, globals, tvars, pvars, xvars, fvars>>

ResolveNext ==
    \/ \E p \in Requests : ConfigGlobal(p[1], p[2])
    \/ Generate

ResolveSpec == ResolveInit /\ [][ResolveNext]_vars

\* Config::global / Config::interface for an interface that was named
\* before, with another version: wayland_scanner pushes the pair,
\* ei_scanner's assert on the insert fails.
ConfigGlobalAgain(name, version) ==
    /\ resolved.st = "none"
    /\ name \in Named(globals)
    /\ <<name, version>> \notin globals
    /\ Cardinality(globals) < MaxRoots
    /\ IF scanner = "ei"
       THEN resolved' = Aborted /\ globals' = globals
       ELSE resolved' = resolved /\ globals' = globals \cup {<<name, version>>}
    /\ UNCHANGED <<scanner, declared, uses, tvars, pvars, xvars, fvars>>

\* The caller names up to MaxRoots roots, some of them more than once.
RootsNext ==
    \/ \E p \in Requests : Cardinality(globals) < MaxRoots /\ ConfigGlobal(p[1], p[2])
    \/ \E p \in Requests : ConfigGlobalAgain(p[1], p[2])
    \/ Generate

RootsSpec == ResolveInit /\ [][RootsNext]_vars

\* --------------------------------------------------- scanners: pruning
\* The values of a since attribute: the number written, 1 when absent.
Sinces == 0..(MaxVersion + 1)

\* A parsed message, enum or entry: where it stood in its list, and since.
Item(list, since) == [id |-> Len(list) + 1, since |-> since, entries |-> <<>>]

\* A retain that keeps what is older than the version.
RetainOlder(list, version) == SelectSeq(list, LAMBDA x : x.since < version)

\* Vec::retain(|x| x.since <= version).
Retain(list, version) == SelectSeq(list, LAMBDA x : x.since <= version)

\* for enm in &mut interface.enums { enm.entries.retain(..) }
RetainEntries(enums, version) ==
    [i \in 1..Len(enums) |->
        [enums[i] EXCEPT !.entries = Retain(enums[i].entries, version)]]

\* preprocess_interfaces, for one interface that is in the version map.
PreprocessInterface(i, version) ==
    [version |-> version,
     requests |-> Retain(i.requests, version),
     events |-> Retain(i.events, version),
     enums |-> RetainEntries(Retain(i.enums, version), version)]

\* The messages, enums and entries parsed so far.
ItemCount ==
    Len(iface.requests) + Len(iface.events) + Len(iface.enums)
        + (IF iface.enums = <<>> THEN 0 ELSE Len(iface.enums[Len(iface.enums)].entries))

PruneInit ==
    /\ TransportOff /\ ResolverOff /\ ParserNew /\ FunctionOff
    /\ iface = EmptyInterface
    /\ pruned = [done |-> FALSE, out |-> EmptyInterface]

\* ParseContext::interface pushes a parsed request, event or enum, and
\* ParseContext::enumeration a parsed entry of the enum being read.
Parsed(kind, since) ==
    /\ ~pruned.done
    /\ ItemCount < MaxItems
    /\ \/ kind = "request" /\ iface' = [iface EXCEPT !.requests = Append(@, Item(@, since))]
       \/ kind = "event" /\ iface' = [iface EXCEPT !.events = Append(@, Item(@, since))]
       \/ kind = "enum" /\ iface' = [iface EXCEPT !.enums = Append(@, Item(@, since))]
       \/ /\ kind = "entry"
          /\ iface.enums # <<>>
          /\ iface' = [iface EXCEPT !.enums[Len(iface.enums)].entries =
                                        Append(@, Item(@, since))]
    /\ UNCHANGED <<pruned, rvars, tvars, xvars, fvars>>

\* preprocess_interfaces with the interface at `version` in the version map.
Preprocess(version) ==
    /\ ~pruned.done
    /\ pruned' = [done |-> TRUE, out |-> PreprocessInterface(iface, version)]
    /\ UNCHANGED <<iface, rvars, tvars, xvars, fvars>>

PruneNext ==
    \/ \E kind \in {"request", "event", "enum", "entry"}, since \in Sinces :
          Parsed(kind, since)
    \/ \E version \in 0..MaxVersion : Preprocess(version)

PruneSpec == PruneInit /\ [][PruneNext]_vars

\* ------------------------------------------- scanners: generated code
\* Opcodes that follow the places the messages had before pruning.
GenUnmarshalerAsDeclared(messages, other) ==
    {[opcode |-> messages[i].id - 1, id |-> messages[i].id] :
        i \in {j \in 1..Len(messages) : messages[j].id \notin other}}

\* gen_message_unmarshaler: one match arm `i => Some(..)` per message of the
\* pruned list, i its place in that list; ei_scanner leaves out, after
\* numbering, the messages of the other context type.
GenMessageUnmarshaler(messages, other) ==
    {[opcode |-> i - 1, id |-> messages[i].id] :
        i \in {j \in 1..Len(messages) : messages[j].id \notin other}}

\* A marshaler that numbers the messages after leaving out those of the
\* other context type.
GenMessageMarshalerDense(messages, other) ==
    LET kept == SelectSeq(messages, LAMBDA m : m.id \notin other)
    IN  {[id |-> kept[i].id, opcode |-> i - 1] : i \in 1..Len(kept)}

\* gen_message_marshaler: one arm per message, which calls
\* conn.write_message(object, i, ..) with i numbered the same way.
GenMessageMarshaler(messages, other) ==
    {[id |-> messages[i].id, opcode |-> i - 1] :
        i \in {j \in 1..Len(messages) : messages[j].id \notin other}}

\* gen_messages: the message enum with its unmarshal and marshal.
GenMessages(messages, other) ==
    [types |-> TRUE,
     unmarshal |-> GenMessageUnmarshaler(messages, other),
     marshal |-> GenMessageMarshaler(messages, other)]

NoMessages == [types |-> FALSE, unmarshal |-> {}, marshal |-> {}]

\* gen_interface: the handle struct alone at version 0, and otherwise the
\* Object impl and the message enums as well.
GenInterface(i, other) ==
    IF i.version = 0
    THEN [struct |-> TRUE, object_impl |-> FALSE,
          requests |-> NoMessages, events |-> NoMessages]
    ELSE [struct |-> TRUE, object_impl |-> TRUE,
          requests |-> GenMessages(i.requests, other),
          events |-> GenMessages(i.events, other)]

\* gen_global_interface_enum and gen_global_message_enum, for one
\* interface: its Interface variant, and in the global message enum either
\* a variant with a read and a write arm, or the arm unreachable!("disabled").
GenGlobal(i) ==
    [variant |-> TRUE,
     message_variant |-> i.version # 0,
     read |-> IF i.version # 0 THEN "unmarshal" ELSE "unreachable",
     write |-> i.version # 0]

\* The generated `match msg.opcode() { i => Some(..), _ => None }`.
MatchOpcode(arms, opcode) ==
    IF \E a \in arms : a.opcode = opcode
    THEN [st |-> "Some", id |-> (CHOOSE a \in arms : a.opcode = opcode).id]
    ELSE [st |-> "None"]

\* A global unmarshal that answers None for a disabled interface.
GlobalUnmarshalLenient(code, arms, opcode) ==
    IF code.global.read = "unreachable" THEN [st |-> "None"]
    ELSE MatchOpcode(arms, opcode)

\* The generated Request::unmarshal / Event::unmarshal(interface, msg).
GlobalUnmarshal(code, arms, opcode) ==
    IF code.global.read = "unreachable" THEN [st |-> "panic"]
    ELSE MatchOpcode(arms, opcode)

\* The message lists of up to n items, each with a since.
ItemLists(n) ==
    {[k \in 1..Len(s) |-> [id |-> k, since |-> s[k], entries |-> <<>>]] :
        s \in UNION {[1..m -> Sinces] : m \in 0..n}}

\* The ids of the messages that carry the other context type.
Others == {{}, {1}}

\* An interface has been parsed.
GenInit ==
    /\ TransportOff /\ ResolverOff /\ ParserNew /\ FunctionOff
    /\ \E r \in ItemLists(MaxItems), e \in ItemLists(1) :
          iface = [EmptyInterface EXCEPT !.requests = r, !.events = e]
    /\ pruned = [done |-> FALSE, out |-> EmptyInterface]

\* GenContext::gen, for the pruned interface.
GenCode(other) ==
    /\ pruned.done
    /\ result.st = "none"
    /\ result' = [st |-> "gen", other |-> other,
                  code |-> GenInterface(pruned.out, other),
                  global |-> GenGlobal(pruned.out),
                  read |-> [kind |-> "none", opcode |-> 0, got |-> [st |-> "none"]]]
    /\ UNCHANGED <<call, iface, pruned, rvars, tvars, xvars>>

\* The generated code reads a message of the interface.
Dispatch(kind, opcode) ==
    /\ result.st = "gen"
    /\ result' = [result EXCEPT
                    !.st = "read",
                    !.read = [kind |-> kind, opcode |-> opcode,
                              got |-> GlobalUnmarshal(result,
                                        IF kind = "request"
                                        THEN result.code.requests.unmarshal
                                        ELSE result.code.events.unmarshal,
                                        opcode)]]
    /\ UNCHANGED <<call, iface, pruned, rvars, tvars, xvars>>

GenNext ==
    \/ \E version \in 0..MaxVersion : Preprocess(version)
    \/ \E other \in Others : GenCode(other)
    \/ \E kind \in {"request", "event"}, opcode \in 0..MaxItems : Dispatch(kind, opcode)

GenSpec == GenInit /\ [][GenNext]_vars

\* --------------------------------------------------- scanners: parsing
\* The element names of a protocol file, and one that is none of them.
Elements ==
    {"protocol", "copyright", "description", "interface", "request", "event",
     "arg", "enum", "entry", "other"}

\* The attributes whose absence (or, for a typed one, failure to parse)
\* matters to the element functions.
Attrs == {"name", "version", "type", "value", "summary"}

\* The txml events: an opening tag with the set of attributes it carries, a
\* closing tag, text (a comment or processing instruction does the same),
\* and the end of the input.
Events ==
    [k : {"Open"}, name : Elements, attrs : SUBSET Attrs]
        \cup [k : {"Close"}, name : Elements, attrs : {{}}]
        \cup [k : {"Text", "End"}, name : {""}, attrs : {{}}]

\* The children each element function accepts in its Open arm.
Children(top) ==
    CASE top = "protocol" -> {"copyright", "description", "interface"}
      [] top = "interface" -> {"description", "request", "event", "enum"}
      [] top \in {"request", "event"} -> {"description", "arg"}
      [] top = "enum" -> {"description", "entry"}
      [] top \in {"arg", "entry"} -> {"description"}
      [] OTHER -> {}

\* The attributes each element function reads with `?`.
Needs(name) ==
    CASE name = "interface" -> {"name", "version"}
      [] name = "arg" -> {"name", "type"}
      [] name = "entry" -> {"name", "value"}
      [] name = "description" -> {"summary"}
      [] name = "copyright" -> {}
      [] OTHER -> {"name"}

\* The closing tags that end an element function: ParseContext::message
\* takes either of its two.
Closes(top) == IF top \in {"request", "event"} THEN {"request", "event"} ELSE {top}

Failed(p) == [p EXCEPT !.st = "None"]

\* A parser that skips a child it does not know.
OnOpenLenient(p, name, attrs) ==
    IF name \notin Children(p.stack[Len(p.stack)]) THEN p
    ELSE IF ~(Needs(name) \subseteq attrs) THEN Failed(p)
    ELSE [p EXCEPT !.stack = Append(@, name)]

\* The Open arm of the element function on top of the stack: the child's
\* function is called, and reads its attributes first.
OnOpen(p, name, attrs) ==
    IF name \notin Children(p.stack[Len(p.stack)]) THEN Failed(p)
    ELSE IF ~(Needs(name) \subseteq attrs) THEN Failed(p)
    ELSE [p EXCEPT !.stack = Append(@, name)]

\* The Close arms: the element function returns its element, and
\* ParseContext::protocol returns the Protocol.
OnClose(p, name) ==
    IF name \notin Closes(p.stack[Len(p.stack)]) THEN Failed(p)
    ELSE [st |-> IF Len(p.stack) = 1 THEN "Some" ELSE "in",
          stack |-> SubSeq(p.stack, 1, Len(p.stack) - 1)]

\* ParseContext::parse before <protocol>: everything else is skipped.
OnScan(p, e) ==
    IF e.k = "End" \/ (e.k = "Close" /\ e.name = "protocol") THEN Failed(p)
    ELSE IF e.k = "Open" /\ e.name = "protocol"
    THEN IF Needs(e.name) \subseteq e.attrs
         THEN [st |-> "in", stack |-> <<e.name>>] ELSE Failed(p)
    ELSE p

\* One self.next() and the match on it.
OnEvent(p, e) ==
    IF p.st = "scan" THEN OnScan(p, e)
    ELSE IF e.k = "End" THEN Failed(p)
    ELSE IF e.k = "Open" THEN OnOpen(p, e.name, e.attrs)
    ELSE IF e.k = "Close" THEN OnClose(p, e.name)
    ELSE p

ParseInit ==
    /\ TransportOff /\ ResolverOff /\ PrunerOff /\ FunctionOff
    /\ ParserNew

\* The parser takes the next event of the file.
ParseStep(e) ==
    /\ parse.st \in {"scan", "in"}
    /\ event' = e
    /\ parse' = OnEvent(parse, e)
    /\ UNCHANGED <<rvars, pvars, tvars, fvars>>

ParseNext == \E e \in Events : ParseStep(e)

ParseSpec == ParseInit /\ [][ParseNext]_vars

\* ------------------------------------------- scanners: single functions
\* The sequences over S of at most n elements.
SeqsUpTo(S, n) == UNION {[1..k -> S] : k \in 0..n}

\* The type attribute of an arg element, as far as the functions tell
\* types apart.
ArgTypes == {"new_id", "object", "uint"}

\* The interfaces that hold typed arguments in one call.
Owners == {"A", "B"}

\* The args of the requests and events of all interfaces, in the order the
\* loops meet them: the interface that holds the arg, its interface
\* attribute ("none" when absent) and its type.
TypedArgs ==
    [of : Owners, interface : Owners \cup {"none"}, kind : ArgTypes]

\* A graph in which a later argument replaces what an earlier one made of
\* the pair.
KindLatest(existing, dep_kind) == dep_kind

\* max(existing, dep_kind) under the derived Ord: AnyVersion < SameVersion.
KindMax(existing, dep_kind) ==
    IF existing = "SameVersion" \/ dep_kind = "SameVersion"
    THEN "SameVersion" ELSE "AnyVersion"

\* The body of the loop over args: an arg without interface, or typed as
\* the interface that holds it, adds nothing; one that is neither new_id
\* nor object is unreachable!(); the others insert their kind or raise the
\* entry to it.
InsertEdge(g, arg) ==
    IF g.st # "ok" \/ arg.interface = "none" \/ arg.interface = arg.of THEN g
    ELSE IF arg.kind \notin {"new_id", "object"} THEN [g EXCEPT !.st = "panic"]
    ELSE [g EXCEPT !.e[<<arg.of, arg.interface>>] =
            IF @ = "none"
            THEN (IF arg.kind = "new_id" THEN "SameVersion" ELSE "AnyVersion")
            ELSE KindMax(@, IF arg.kind = "new_id" THEN "SameVersion" ELSE "AnyVersion")]

RECURSIVE GraphOfArgs(_, _)
\* make_dependency_graph: the loops over interfaces, messages and args.
GraphOfArgs(g, args) ==
    IF args = <<>> THEN g
    ELSE GraphOfArgs(InsertEdge(g, Head(args)), Tail(args))

\* BTreeMap::new().
EmptyGraph == [st |-> "ok", e |-> [p \in Owners \X Owners |-> "none"]]

\* The name attributes of the args of one message, in order.
ArgNames == <<"a1", "a2", "a3", "a4", "a5">>

\* The args of one message: the k-th has the k-th name, any type, and names
\* an interface or none.
MessageArgs ==
    {[k \in 1..Len(a) |->
        [name |-> ArgNames[k], kind |-> a[k].kind, interface |-> a[k].interface]] :
     a \in SeqsUpTo([kind : ArgTypes, interface : {"none", "B"}], MaxArgs)}

\* Arg { name: "version", kind: ArgKind::Uint, ..Arg::default() }
VersionArg == [name |-> "version", kind |-> "uint", interface |-> "none"]

\* Arg { name: "interface", kind: ArgKind::String, ..Arg::default() }
InterfaceArg == [name |-> "interface", kind |-> "string", interface |-> "none"]

\* The indices, counted from 0, of the new_id args without interface.
NewIdWithoutInterfaceArgIndices(args) ==
    SelectSeq([k \in 1..Len(args) |-> k - 1],
              LAMBDA i : args[i + 1].kind = "new_id" /\ args[i + 1].interface = "none")

\* Vec::insert(i, x): x comes to stand at index i, counted from 0.
VecInsert(v, i, x) == SubSeq(v, 1, i) \o <<x>> \o SubSeq(v, i + 1, Len(v))

RECURSIVE InsertBefore(_, _)
\* for i in indices { args.insert(i, version); args.insert(i, interface) }
InsertBefore(args, indices) ==
    IF indices = <<>> THEN args
    ELSE InsertBefore(VecInsert(VecInsert(args, Head(indices), VersionArg),
                                Head(indices), InterfaceArg),
                      Tail(indices))

\* preprocess_protocol, for the args of one message.
PreprocessProtocol(args) == InsertBefore(args, NewIdWithoutInterfaceArgIndices(args))

\* i32::MAX and i32::MIN.
I32Max == 2147483647

I32Min == -I32Max - 1

\* An f32 that is the fraction num / den, den a power of two.
F32(num, den) == [num |-> num, den |-> den]

\* `x as i32` for the fraction num / den: rounds toward zero and saturates.
AsI32(num, den) ==
    IF num >= 0
    THEN Min(num \div den, I32Max)
    ELSE IF (-num) \div den > I32Max THEN I32Min
    ELSE -((-num) \div den)

\* impl From<f32> for Fixed: Fixed((value * 256.0) as i32).
FixedFromF32(value) == [st |-> "ok", fixed |-> AsI32(value.num * 256, value.den)]

\* impl From<i32> for Fixed: Fixed(value.checked_mul(128).unwrap()).
FixedFromI32(value) ==
    IF value > I32Max \div 128 \/ value < I32Min \div 128
    THEN [st |-> "panic", fixed |-> 0]
    ELSE [st |-> "ok", fixed |-> value * 128]

\* impl From<Fixed> for f32: v as f32 / 256.0.
F32FromFixed(v) == F32(v, 256)

\* The numbers a call converts: whole ones, and 512ths.
Numbers == {F32(n, d) : n \in (-MaxNumber)..MaxNumber, d \in {1, 512}}

\* The lengths of the array a narrow write_message is called with: short
\* ones, and those around the longest it accepts.
ArrayLens == (0..MaxArgs) \cup {65535 - NarrowHeader - 4 - d : d \in 0..(2 * MaxArgs)}

\* write_message(obj, op, &[Arg::Array(..)], []) on a new narrow Connection:
\* whether it returned, how many bytes it appended and the header they
\* start with.
WriteMessageCall(len) ==
    IF ~WriteAccepts("narrow", <<ArgArray(Zeros(len))>>)
    THEN [st |-> "panic", appended |-> 0, hdr |-> ParseHeader("narrow", Zeros(NarrowHeader))]
    ELSE [st |-> "ok",
          appended |-> CLen(WriteMessageBuf("narrow", CircBufNew,
                                            [op |-> 2, args |-> <<ArgArray(Zeros(len))>>],
                                            FreshObj(1))),
          hdr |-> ParseHeader("narrow",
                      Take(WriteMessageBuf("narrow", CircBufNew,
                                           [op |-> 2, args |-> <<ArgArray(Zeros(len))>>],
                                           FreshObj(1)).data, NarrowHeader))]

\* The calls of one function each.
Calls ==
    {[fn |-> "make_dependency_graph", args |-> a] : a \in SeqsUpTo(TypedArgs, MaxArgs)}
      \cup {[fn |-> "preprocess_protocol", args |-> a] : a \in MessageArgs}
      \cup {[fn |-> "write_message", len |-> n] : n \in ArrayLens}
      \cup {[fn |-> "Fixed::from(f32)", value |-> v] : v \in Numbers}
      \cup {[fn |-> "Fixed::from(i32)", value |-> F32(n, 1)] :
                n \in (-MaxNumber)..MaxNumber}

CallInit ==
    /\ TransportOff /\ ResolverOff /\ PrunerOff /\ ParserNew
    /\ call \in Calls
    /\ result = [st |-> "none"]

\* make_dependency_graph(&interfaces).
CallMakeDependencyGraph ==
    /\ call.fn = "make_dependency_graph"
    /\ result.st = "none"
    /\ result' = GraphOfArgs(EmptyGraph, call.args)
    /\ UNCHANGED <<call, rvars, pvars, xvars, tvars>>

\* preprocess_protocol(protocol).
CallPreprocessProtocol ==
    /\ call.fn = "preprocess_protocol"
    /\ result.st = "none"
    /\ result' = [st |-> "ok", args |-> PreprocessProtocol(call.args)]
    /\ UNCHANGED <<call, rvars, pvars, xvars, tvars>>

\* The result of a conversion to Fixed and, if there is one, of
\* f32::from of it.
ThereAndBack(r) ==
    IF r.st = "ok" THEN [st |-> "ok", fixed |-> r.fixed, back |-> F32FromFixed(r.fixed)]
    ELSE [st |-> r.st, fixed |-> 0, back |-> F32(0, 1)]

\* Fixed::from(value) for an f32, and f32::from of the result.
CallFixedFromF32 ==
    /\ call.fn = "Fixed::from(f32)"
    /\ result.st = "none"
    /\ result' = ThereAndBack(FixedFromF32(call.value))
    /\ UNCHANGED <<call, rvars, pvars, xvars, tvars>>

\* Fixed::from(value) for an i32, and f32::from of the result.
CallFixedFromI32 ==
    /\ call.fn = "Fixed::from(i32)"
    /\ result.st = "none"
    /\ result' = ThereAndBack(FixedFromI32(call.value.num))
    /\ UNCHANGED <<call, rvars, pvars, xvars, tvars>>

\* Connection::write_message with one array argument.
CallWriteMessage ==
    /\ call.fn = "write_message"
    /\ result.st = "none"
    /\ result' = WriteMessageCall(call.len)
    /\ UNCHANGED <<call, rvars, pvars, xvars, tvars>>

CallNext ==
    \/ CallWriteMessage
    \/ CallMakeDependencyGraph
    \/ CallPreprocessProtocol
    \/ CallFixedFromF32
    \/ CallFixedFromI32

CallSpec == CallInit /\ [][CallNext]_vars

\* ------------------------------------------------------------ IdAllocator
\* What the callers attach to an object.
Data == {"a", "b"}

\* The ids the callers hold.
Live == {p[1] : p \in held}

\* An allocate that reads the last free id and leaves it in the list.
IdAllocatePeeking(a, data) ==
    IF a.free # <<>>
    THEN [ids |-> [a EXCEPT !.data[a.free[Len(a.free)]] = data],
          id |-> a.free[Len(a.free)]]
    ELSE [ids |-> [a EXCEPT !.next = a.next + 1, !.data = Append(a.data, data)],
          id |-> a.next]

\* IdAllocator::allocate: the allocator it leaves and the id it returns.
\* self.data[id - 1] is data[id] here.
IdAllocate(a, data) ==
    IF a.free # <<>>
    THEN [ids |-> [a EXCEPT !.free = Take(a.free, Len(a.free) - 1),
                            !.data[a.free[Len(a.free)]] = data],
          id |-> a.free[Len(a.free)]]
    ELSE [ids |-> [a EXCEPT !.next = a.next + 1, !.data = Append(a.data, data)],
          id |-> a.next]

\* ids.allocate(data), with at most MaxIds ids ever made.
Allocate(data) ==
    /\ ids.free # <<>> \/ ids.next <= MaxIds
    /\ \E o \in {IdAllocate(ids, data)} :
          /\ ids' = o.ids
          /\ held' = held \cup {<<o.id, data>>}
          /\ call' = [fn |-> "allocate", id |-> 0, data |-> data]
          /\ result' = [st |-> "ok", id |-> o.id, data |-> data]
    /\ UNCHANGED <<roundtrip, peer, rvars, pvars, xvars, family, write_buf, write_fds,
                   sock, read_buf, read_fds, fb_pc, rb_pc, rstate, last, sent, delivered,
                   dec, cvars>>

\* ids.release(id) of an id a caller holds.
Release(id) ==
    /\ id \in Live
    /\ ids' = [ids EXCEPT !.free = Append(@, id)]
    /\ held' = {p \in held : p[1] # id}
    /\ call' = [fn |-> "release", id |-> id, data |-> ""]
    /\ result' = [st |-> "ok", id |-> 0, data |-> ""]
    /\ UNCHANGED <<roundtrip, peer, rvars, pvars, xvars, family, write_buf, write_fds,
                   sock, read_buf, read_fds, fb_pc, rb_pc, rstate, last, sent, delivered,
                   dec, cvars>>

\* ids.data_for(id) of an id a caller holds.
DataFor(id) ==
    /\ id \in Live
    /\ call' = [fn |-> "data_for", id |-> id, data |-> ""]
    /\ result' = IF id \in 1..Len(ids.data)
                 THEN [st |-> "ok", id |-> 0, data |-> ids.data[id]]
                 ELSE [st |-> "panic", id |-> 0, data |-> ""]
    /\ UNCHANGED <<ids, held, roundtrip, peer, rvars, pvars, xvars, family, write_buf,
                   write_fds, sock, read_buf, read_fds, fb_pc, rb_pc, rstate, last, sent,
                   delivered, dec, cvars>>

IdInit == TransportOff /\ ScannerOff

IdNext ==
    \/ \E data \in Data : Allocate(data)
    \/ \E id \in 1..MaxIds : Release(id)
    \/ \E id \in 1..MaxIds : DataFor(id)

IdSpec == IdInit /\ [][IdNext]_vars

\* ------------------------------------------------------- WaylandConnection
\* The client's socket is `sock` (what the compositor sent and the client
\* has not received), read_buf and write_buf are the client's; the
\* compositor takes what the client sends at once.
\* The object id of wl_display.
WlDisplay == 1

\* The variables of the connection that a WaylandConnection leaves alone.
qvars == <<family, fb_pc, rb_pc, rstate, last, delivered, dec, cvars, svars>>

\* main: WaylandConnection { .. } and wl_conn.create(0) for wl_display.
Connect ==
    /\ roundtrip.pc = "off"
    /\ \E o \in {IdAllocate(ids, "a")} :
          /\ ids' = o.ids
          /\ held' = held \cup {<<o.id, "a">>}
    /\ roundtrip' = [roundtrip EXCEPT !.pc = "idle"]
    /\ UNCHANGED <<peer, write_buf, write_fds, sock, read_buf, read_fds, sent, qvars>>

\* roundtrip up to its loop: sync_done = false, and send_constructor
\* creates the callback and marshals wl_display.sync(callback).
RoundtripCall ==
    /\ roundtrip.pc = "idle"
    /\ ids.next <= MaxIds
    /\ \E o \in {IdAllocate(ids, "b")} :
          /\ ids' = o.ids
          /\ held' = held \cup {<<o.id, "b">>}
          /\ roundtrip' = [pc |-> "flush", sync_done |-> FALSE, sync_callback |-> o.id]
          /\ write_buf' = WriteMessageBuf(family, write_buf,
                                          [op |-> 0, args |-> <<ArgUint(U32OfNat(o.id))>>],
                                          WlDisplay)
    /\ UNCHANGED <<peer, write_fds, sock, read_buf, read_fds, sent, qvars>>

\* self.wire.flush_blocking().unwrap(): the send fails once the compositor
\* has closed its end.
RoundtripFlush ==
    /\ roundtrip.pc = "flush"
    /\ \E o \in {FlushNonblockingOutcome(write_buf, write_fds, <<>>, peer # "open")} :
          /\ write_buf' = o.buf
          /\ write_fds' = o.fds
          /\ roundtrip' = [roundtrip EXCEPT !.pc =
                              IF FlushBlockingMatch(o.res).pc = "poll" THEN "flush"
                              ELSE IF IsOk(FlushBlockingMatch(o.res).val) THEN "read"
                              ELSE "panic"]
    /\ UNCHANGED <<ids, held, peer, sock, read_buf, read_fds, sent, qvars>>

\* What read_nonblocking returns with nothing in flight: would-block while
\* the compositor's end is open, end of file (recvmsg returns 0 bytes) once
\* it is closed, and a reset if it was closed with requests unread.
NothingInFlight(b, fdq, p) ==
    IF p = "open" THEN [res |-> "WOULDBLOCK", buf |-> b, fdq |-> fdq, sock |-> <<>>]
    ELSE IF p = "reset" THEN [res |-> "ECONNRESET", buf |-> b, fdq |-> fdq, sock |-> <<>>]
    ELSE ReadFromSocket(b, fdq, <<>>, 0)

\* roundtrip with the result of read_blocking's read_nonblocking:
\* .unwrap() of Ok or of an error, or on to poll.
RoundtripAfterRead(rt, res) ==
    [rt EXCEPT !.pc = IF ReadBlockingMatch(res).pc = "poll" THEN "poll"
                      ELSE IF IsOk(ReadBlockingMatch(res).val) THEN "events"
                      ELSE "panic"]

\* self.wire.read_blocking().unwrap(), one read_nonblocking of it.
RoundtripRead ==
    /\ roundtrip.pc = "read"
    /\ \E n \in RecvCounts(Min(Len(sock), CAvail(read_buf))) :
          \E o \in {IF sock = <<>> THEN NothingInFlight(read_buf, read_fds, peer)
                     ELSE ReadFromSocket(read_buf, read_fds, sock, n)} :
             /\ read_buf' = o.buf
             /\ read_fds' = o.fdq
             /\ sock' = o.sock
             /\ roundtrip' = RoundtripAfterRead(roundtrip, o.res)
    /\ UNCHANGED <<ids, held, peer, write_buf, write_fds, sent, qvars>>

\* read_blocking's poll(IN | HUP | ERR) returns: something is in flight or
\* the compositor's end is closed.
RoundtripPoll ==
    /\ roundtrip.pc = "poll"
    /\ sock # <<>> \/ peer # "open"
    /\ roundtrip' = [roundtrip EXCEPT !.pc = "read"]
    /\ UNCHANGED <<ids, held, peer, write_buf, write_fds, sock, read_buf, read_fds, sent,
                   qvars>>

\* handle_events' match on one event: a wl_display error panics, the done
\* of sync_callback sets sync_done, anything else goes to the handler.
HandleEvent(rt, msg) ==
    IF msg.obj = ObjWord(family, WlDisplay) /\ msg.op = 0 THEN [rt EXCEPT !.pc = "panic"]
    ELSE IF msg.obj = ObjWord(family, rt.sync_callback) /\ msg.op = 0
    THEN [rt EXCEPT !.sync_done = TRUE]
    ELSE rt

\* handle_events after a read_message that returned o, and roundtrip's
\* while !self.sync_done once it returned None.
AfterReadMessage(rt, o) ==
    IF o.ret = "panic" THEN [rt EXCEPT !.pc = "panic"]
    ELSE IF o.ret = "Some" THEN HandleEvent(rt, o.msg[1])
    ELSE IF rt.sync_done THEN [rt EXCEPT !.pc = "idle"]
    ELSE [rt EXCEPT !.pc = "flush"]

\* self.handle_events(&mut handler), one turn of its while let Some(event),
\* then while !self.sync_done.
RoundtripEvents ==
    /\ roundtrip.pc = "events"
    /\ \E o \in {ReadMessageOutcome(family, read_buf, read_fds)} :
          /\ read_buf' = o.buf
          /\ read_fds' = o.fdq
          /\ \E rt \in {AfterReadMessage(roundtrip, o)} : roundtrip' = rt
    /\ UNCHANGED <<ids, held, peer, write_buf, write_fds, sock, sent, qvars>>

\* roundtrip is inside its loop.
Running == roundtrip.pc \in {"flush", "read", "poll", "events"}

\* The compositor has the sync request and sends an event of opcode 0:
\* wl_callback.done for the callback, once, or wl_display.error.
PeerSendsEvent(obj) ==
    /\ peer = "open"
    /\ roundtrip.pc \in {"read", "poll", "events"}
    /\ Len(sent) < MaxMsgs
    /\ Len(sock) + HeaderSize(family) <= SockCap
    /\ \A i \in 1..Len(sent) : sent[i].obj # ObjWord(family, roundtrip.sync_callback)
    /\ sock' = sock \o [i \in 1..HeaderSize(family) |->
                           [b |-> EncodeHeader(family, obj, HeaderSize(family), 0)[i],
                            fds |-> <<>>]]
    /\ sent' = Append(sent, [obj |-> ObjWord(family, obj), op |-> 0,
                             args |-> <<>>, fds |-> <<>>])
    /\ UNCHANGED <<ids, held, roundtrip, peer, write_buf, write_fds, read_buf, read_fds,
                   qvars>>

\* The compositor closes its end, with everything the client sent read or
\* not.
PeerCloses ==
    /\ peer = "open"
    /\ roundtrip.pc # "off"
    /\ peer' \in {"closed", "reset"}
    /\ UNCHANGED <<ids, held, roundtrip, write_buf, write_fds, sock, read_buf, read_fds,
                   sent, qvars>>

\* The statements of roundtrip's loop.
RoundtripStep ==
    \/ RoundtripFlush
    \/ RoundtripRead
    \/ RoundtripPoll
    \/ RoundtripEvents

RoundtripInit == TransportOff /\ ScannerOff

RoundtripNext ==
    \/ Connect
    \/ RoundtripCall
    \/ RoundtripStep
    \/ \E obj \in {WlDisplay, roundtrip.sync_callback} : PeerSendsEvent(obj)
    \/ PeerCloses

\* The client's thread goes on while it can: a call that does not block
\* returns, and poll returns once the socket is readable or hung up.
RoundtripSpec ==
    /\ RoundtripInit /\ [][RoundtripNext]_vars
    /\ WF_vars(RoundtripFlush) /\ WF_vars(RoundtripRead)
    /\ WF_vars(RoundtripPoll) /\ WF_vars(RoundtripEvents)

\* -------------------------------------------------------------- properties
\* The total length write_message declared for message m.
SizeOf(m) == MessageSize(family, m.args)

\* The bytes write_message produced for the sender's i-th message.
FrameOf(i) ==
    EncodeHeader(family, FreshObj(i), SizeOf(sent[i]), sent[i].op)
        \o EncodeArgs(sent[i].args)

\* The receiver's buffer holds exactly the first k bytes of the oldest
\* message not yet returned by read_message.
HoldsPrefix(k) ==
    /\ Len(delivered) < Len(sent)
    /\ read_buf.data = Take(FrameOf(Len(delivered) + 1), k)

\* The receiver's buffer holds all but the last byte of the oldest message
\* not yet returned / holds exactly that message.
OneByteShort ==
    Len(delivered) < Len(sent) /\ HoldsPrefix(SizeOf(sent[Len(delivered) + 1]) - 1)

ExactlyOne ==
    Len(delivered) < Len(sent) /\ HoldsPrefix(SizeOf(sent[Len(delivered) + 1]))

\* The header at the front of the receiver's buffer declares more bytes than
\* are buffered.
HeaderBuffered == CLen(read_buf) >= HeaderSize(family)

DeclaredSize == ParseHeader(family, Take(read_buf.data, HeaderSize(family))).size

FrameIncomplete == HeaderBuffered /\ CLen(read_buf) < DeclaredSize

FrameBuffered == HeaderBuffered /\ CLen(read_buf) >= DeclaredSize

\* C1: with the first N-1 bytes of an N-byte message buffered (a header-only
\* message included), read_message returns None without failing; with the
\* whole message buffered it returns one message and leaves the buffer empty.
C1_OneByteShortThenWhole ==
    [][ReadMessage =>
         /\ OneByteShort => (last'.val = "None" /\ read_buf' = read_buf)
         /\ ExactlyOne => /\ last'.val = "Some"
                          /\ Len(delivered') = Len(delivered) + 1
                          /\ CLen(read_buf') = 0]_vars

\* C1, the case that fails: read_message has panicked on all but the last
\* byte of a header-only message.
C1_HeaderOnlyShort ==
    /\ last = [op |-> "read_message", val |-> "panic"]
    /\ Len(delivered) < Len(sent)
    /\ sent[Len(delivered) + 1].args = <<>>
    /\ CLen(read_buf) = HeaderSize(family) - 1

\* C2: with fewer bytes buffered than one header (8 narrow, 16 wide; 0
\* included) read_message returns None, does not panic and changes nothing.
C2_ShortHeaderIsNone ==
    [][(ReadMessage /\ CLen(read_buf) < HeaderSize(family)) =>
         /\ last'.val = "None"
         /\ UNCHANGED <<read_buf, read_fds, rstate, delivered, dec>>]_vars

\* Two messages were sent, the first with one fd and the second with two,
\* and both were returned by read_message.
OneThenTwoFds ==
    /\ Len(sent) = 2
    /\ Len(sent[1].fds) = 1
    /\ Len(sent[2].fds) = 2
    /\ Len(delivered) = 2

\* C3: a message sent with one fd followed by a message sent with two, both
\* received and decoded in arrival order, each get the fds they were sent
\* with, in sending order.
C3_FdsFollowMessages ==
    OneThenTwoFds =>
        /\ delivered[1].fds = sent[1].fds
        /\ delivered[2].fds = sent[2].fds

\* C3's scenario: both messages went out in one flush and came in with one
\* receive, the three fds queued, nothing decoded yet.
C3_OneFlushOneBatch ==
    /\ Len(sent) = 2
    /\ Len(sent[1].fds) = 1
    /\ Len(sent[2].fds) = 2
    /\ delivered = <<>>
    /\ last = [op |-> "read_nonblocking", val |-> "Ok(true)"]
    /\ CIsEmpty(write_buf)
    /\ sock = <<>>
    /\ read_buf.data = FrameOf(1) \o FrameOf(2)
    /\ Len(read_fds) = 3

\* C4: the value the matching read_* returns from the bytes write_message
\* produced is the value that was passed to write_message, for every
\* argument kind.
C4_RoundTrip ==
    c_pc = "decoded" => (c_out.st = "ok" /\ c_out.val = c_arg)

\* round_up_to_4.
RoundUp4(n) == ((n + 3) \div 4) * 4

\* The size the wire format gives a string (with its NUL) or an array.
PaddedSize(a) ==
    IF a.k = "String" THEN 4 + RoundUp4(Len(a.s) + 1) ELSE 4 + RoundUp4(Len(a.a))

\* C5: write_message advances the outgoing buffer by 4 + round_up_to_4(n + 1)
\* for a string and 4 + round_up_to_4(n) for an array of n bytes, and
\* read_string / read_array consume the same number of payload bytes, so the
\* word after the argument is read from the right offset.
C5_PaddedSizes ==
    (c_pc = "decoded" /\ (c_arg.k = "Array" \/ (c_arg.k = "String" /\ c_arg.some))) =>
        /\ CLen(write_buf) - HeaderSize(family) - ArgSize(Marker) = PaddedSize(c_arg)
        /\ c_out.used = PaddedSize(c_arg)
        /\ c_out.next = Marker

\* What read_message returned is message m as it was passed to
\* write_message (handle, opcode and arguments; the fds are C3's matter).
SameMessage(d, m) == d.obj = m.obj /\ d.op = m.op /\ d.args = m.args

\* C6: under every interleaving of partial flushes, receives and
\* read_message calls, the messages read_message returns are the messages
\* passed to write_message, in order, and the receiver stays able to return
\* the rest.
C6_Fifo ==
    /\ rstate = "run"
    /\ Len(delivered) <= Len(sent)
    /\ \A i \in 1..Len(delivered) : SameMessage(delivered[i], sent[i])

\* C7: flush_blocking returns success only with the outgoing buffer empty.
C7_FlushBlockingDrains ==
    (last.op = "flush_blocking" /\ IsOk(last.val)) => CIsEmpty(write_buf)

\* C8: with the header buffered and fewer bytes buffered than it declares,
\* read_message returns None, does not invoke the decoder and leaves the
\* incoming buffer (content and cursors) and fd queue unchanged.
C8_IncompleteFrameUntouched ==
    [][(ReadMessage /\ FrameIncomplete) =>
         /\ last'.val = "None"
         /\ dec' = dec
         /\ read_buf' = read_buf
         /\ read_fds' = read_fds
         /\ delivered' = delivered]_vars

\* C8's case: read_message has just returned None on a buffered header
\* whose frame is incomplete.
C8_Witness ==
    /\ last = [op |-> "read_message", val |-> "None"]
    /\ FrameIncomplete

\* C9: with a complete frame buffered, read_message invokes the decoder once
\* on a view of (declared length - header size) bytes and advances the
\* buffer by the declared length whatever the decoder read; the bytes after
\* the frame stay as they are.
C9_AdvanceByDeclared ==
    [][(ReadMessage /\ FrameBuffered /\ last'.val = "Some") =>
         /\ dec'.calls = dec.calls + 1
         /\ dec'.view = DeclaredSize - HeaderSize(family)
         /\ CLen(read_buf') = CLen(read_buf) - DeclaredSize
         /\ read_buf'.data = Drop(read_buf.data, DeclaredSize)
         /\ Len(delivered') = Len(delivered) + 1]_vars

\* C9's case: read_message has just returned a message whose decoder read
\* fewer bytes than the payload holds (opcode 2), with the bytes of a
\* following message buffered behind it.
C9_Witness ==
    /\ last = [op |-> "read_message", val |-> "Some"]
    /\ delivered # <<>>
    /\ delivered[Len(delivered)].op = 2
    /\ dec.view = SizeOf(sent[Len(delivered)]) - HeaderSize(family)
    /\ CLen(read_buf) > 0

\* The errors a send can end in.
SendErrors == {"WOULDBLOCK", "EPIPE"}

\* C10: when the send inside flush_nonblocking fails, the error is returned
\* (would-block as itself), and the outgoing buffer and fd queue are as
\* before; the fd queue is emptied only by a call whose send succeeded.
C10_FailedFlushKeepsAll ==
    [][FlushNonblocking =>
         /\ (last'.val = "WOULDBLOCK") = (~CIsEmpty(write_buf) /\ ~ReceiverGone /\ SendFree = 0)
         /\ last'.val \in SendErrors =>
              (write_buf' = write_buf /\ write_fds' = write_fds /\ sock' = sock)
         /\ write_fds' # write_fds => (IsOk(last'.val) /\ write_fds' = <<>>)]_vars

\* C10's case: flush_nonblocking has just returned would-block with bytes
\* buffered and fds queued to go.
C10_Witness ==
    /\ last = [op |-> "flush_nonblocking", val |-> "WOULDBLOCK"]
    /\ write_fds # <<>>
    /\ ~CIsEmpty(write_buf)

\* The results a blocking wrapper hands to its caller: "" stands for a call
\* that has not returned.
Returned(val) == val # ""

\* A step of flush_blocking obeys the wrapper's contract.
FlushBlockingContract ==
    /\ last'.val # "WOULDBLOCK"
    /\ Returned(last'.val) <=> fb_pc' = "idle"
    /\ fb_pc' = "poll" =>
          /\ FlushNonblockingOutcome(write_buf, write_fds, sock, ReceiverGone).res
                = "WOULDBLOCK"
          /\ UNCHANGED <<write_buf, write_fds, sock>>
    /\ fb_pc = "poll" /\ last'.val = "EINTR" => UNCHANGED <<write_buf, write_fds, sock>>
    /\ fb_pc = "idle" /\ FlushNonblockingOutcome(write_buf, write_fds, sock, ReceiverGone).res
                          \notin {"WOULDBLOCK", "Ok(true)", "Ok(false)"} =>
          last'.val = FlushNonblockingOutcome(write_buf, write_fds, sock, ReceiverGone).res

\* A step of read_blocking obeys the wrapper's contract.
ReadBlockingContract ==
    /\ last'.val # "WOULDBLOCK"
    /\ Returned(last'.val) <=> rb_pc' = "idle"
    /\ rb_pc' = "poll" => sock = <<>> /\ UNCHANGED <<read_buf, read_fds, sock>>
    /\ rb_pc = "poll" /\ last'.val = "EINTR" => UNCHANGED <<read_buf, read_fds, sock>>

Appended == Drop(write_buf'.data, Len(write_buf.data))

\* C12: write_message appends exactly as many bytes as the length field of
\* the header it writes says, that is the header size plus the arguments'
\* encoded sizes; the bytes buffered before stay, in order, in front of them
\* (the buffer is grown when they would not fit); the message's fds go to
\* the back of the outgoing fd queue; nothing is sent or received.
C12_WriteMessageBuffers ==
    [][last'.op = "write_message" =>
         /\ Take(write_buf'.data, Len(write_buf.data)) = write_buf.data
         /\ Len(Appended) = ParseHeader(family, Appended).size
         /\ Len(Appended) = HeaderSize(family) + BytesLen(sent'[Len(sent')].args)
         /\ CLen(write_buf') = CLen(write_buf) + Len(Appended)
         /\ CLen(write_buf') < write_buf'.cap
         /\ write_fds' = write_fds \o sent'[Len(sent')].fds
         /\ UNCHANGED <<sock, read_buf, read_fds>>]_vars

\* write_message has just grown the buffer behind bytes and fds that were
\* already queued.
C12_Witness ==
    /\ last.op = "write_message"
    /\ write_buf.cap > BufCap
    /\ Len(write_buf.data) > SizeOf(sent[Len(sent)])
    /\ Len(write_fds) > Len(sent[Len(sent)].fds)
    /\ sent[Len(sent)].fds # <<>>

\* The generated decoder fails on the frame at the front of the buffer.
DecoderFails ==
    /\ FrameBuffered
    /\ DeclaredSize >= HeaderSize(family)
    /\ Unmarshal(ParseHeader(family, Take(read_buf.data, HeaderSize(family))),
                 ViewAdvance(CGetBytesUpto(read_buf, DeclaredSize), HeaderSize(family)),
                 read_fds).st # "ok"

\* C13: when the decoder fails on a fully buffered frame, read_message
\* panics: it returns neither None nor a message nor an errno, the frame
\* stays where it was, and the receiver never reads another message.
C13_DecoderFailureIsFatal ==
    [][/\ last'.op = "read_message" /\ DecoderFails =>
            /\ last'.val = "panic"
            /\ rstate' = "panic"
            /\ UNCHANGED <<read_buf, delivered>>
       /\ rstate = "panic" => UNCHANGED <<rstate, read_buf, delivered>>]_vars

\* read_message has panicked on a whole frame that the decoder rejected.
C13_Witness ==
    /\ rstate = "panic"
    /\ last = [op |-> "read_message", val |-> "panic"]
    /\ DecoderFails

\* C26: the header read_message parses from the bytes one write_message
\* appended holds the handle and the opcode that were passed and, as size,
\* the number of bytes appended; and every message read_message has
\* returned carries the handle and the opcode of the message sent in its
\* place.
C26_HeaderRoundTrip ==
    /\ [][last'.op = "write_message" =>
             ParseHeader(family, Take(Appended, HeaderSize(family))) =
                 [obj |-> ObjWord(family, FreshObj(Len(sent'))),
                  size |-> Len(Appended),
                  op |-> sent'[Len(sent')].op]]_vars
    /\ [](\A i \in 1..Len(delivered) :
             /\ delivered[i].obj = ObjWord(family, FreshObj(i))
             /\ delivered[i].op = sent[i].op)

\* The second message, of handle 256 and opcode 2, has been written with
\* the narrow header, sent, received and returned by read_message.
C26_Witness ==
    /\ family = "narrow"
    /\ Len(delivered) = 2
    /\ sent[2].op = 2
    /\ delivered[2].obj = U32OfNat(256)
    /\ delivered[2].op = 2
    /\ last = [op |-> "read_message", val |-> "Some"]

\* C29: while the incoming buffer holds the header of a message but not the
\* whole message and more bytes are in flight, a receive takes at least one
\* of them in (the buffer makes room), so the message can be completed.
C29_ReceiveMakesRoom ==
    [][last'.op = "read_nonblocking" /\ sock # <<>> /\ FrameIncomplete =>
           CLen(read_buf') > CLen(read_buf)]_vars

C37_SizeFitsSixteenBits ==
    call.fn = "write_message" /\ result.st # "none" =>
        IF NarrowHeader + ArgSize(ArgArray(Zeros(call.len))) < 65536
        THEN /\ result.st = "ok"
             /\ result.appended = NarrowHeader + ArgSize(ArgArray(Zeros(call.len)))
             /\ result.hdr.size = result.appended
        ELSE result.st = "panic" /\ result.appended = 0

\* The longest array write_message accepts: 65532 bytes are appended and
\* the header says so.
C37_Witness ==
    /\ call.fn = "write_message" /\ call.len = 65520
    /\ result.st = "ok"
    /\ result.appended = 65532 /\ result.hdr.size = 65532

Graph == MakeDependencyGraph(uses)

RECURSIVE Closure(_, _)
\* The interfaces reached from those of S along edges of the given kinds.
Closure(S, kinds) ==
    IF \A m \in S, n \in Interfaces : Graph[<<m, n>>] \in kinds => n \in S
    THEN S
    ELSE Closure(S \cup {n \in Interfaces : \E m \in S : Graph[<<m, n>>] \in kinds}, kinds)

\* The roots and what they reach through new_id arguments alone.
StronglyRequired == Closure(Named(globals), {"SameVersion"})

\* The roots and everything they reach.
Reached == Closure(Named(globals), {"SameVersion", "AnyVersion"})

Generated == resolved.st # "none"

\* A has a new_id argument typed B, B an object argument typed C, and there
\* is no other typed argument; the interfaces declare version 2 or more.
ChainABC ==
    /\ uses = [p \in EdgePairs |->
                 IF p = <<"A", "B">> THEN "new_id"
                 ELSE IF p = <<"B", "C">> THEN "object" ELSE "none"]
    /\ \A n \in Interfaces : declared[n] >= 2

\* The version map with A at 2, B at 2 and C at 0.
MapA2B2C0 ==
    /\ resolved.st = "ok"
    /\ resolved.in = {"A", "B", "C"}
    /\ resolved.v = [n \in Interfaces |-> IF n \in {"A", "B"} THEN 2 ELSE 0]

C15_AtMostDeclared ==
    /\ resolved.st = "ok" =>
          \A n \in StronglyRequired : resolved.v[n] <= declared[n]
    /\ Generated /\ VersionTooHigh(declared, globals) => resolved.st = "panic"

InheritedVersion(n) ==
    CHOOSE v \in 1..MaxVersion :
        /\ \E p \in globals : p[2] = v /\ n \in Closure({p[1]}, {"SameVersion"})
        /\ \A p \in globals : n \in Closure({p[1]}, {"SameVersion"}) => p[2] <= v

C20_WeakOnlyIsZero ==
    resolved.st = "ok" =>
        \A n \in Reached \ StronglyRequired : n \in resolved.in /\ resolved.v[n] = 0

\* A root at version 2 reaches B through an object argument and B has a
\* new_id argument typed C: both are resolved to 0.
C20_Witness ==
    /\ resolved.st = "ok"
    /\ globals = {<<"A", 2>>}
    /\ uses[<<"A", "B">>] = "object"
    /\ uses[<<"B", "C">>] = "new_id"
    /\ uses[<<"A", "C">>] = "none"
    /\ resolved.v["B"] = 0 /\ resolved.v["C"] = 0

\* C21: an interface that the roots reach through new_id arguments alone is
\* in the version map at a version above 0, whatever was reached first, and
\* so is every interface it creates in turn.
C21_StrongPathWins ==
    resolved.st = "ok" =>
        \A n \in StronglyRequired : n \in resolved.in /\ resolved.v[n] > 0

\* From the single root A, wayland_scanner reaches C and then D first
\* through B's object argument and afterwards through A's new_id argument:
\* C and D end at the root's version, B at 0.
C21_Witness ==
    /\ scanner = "wayland"
    /\ resolved.st = "ok"
    /\ globals = {<<"A", 2>>}
    /\ uses = [p \in EdgePairs |->
                 IF p = <<"A", "B">> THEN "object"
                 ELSE IF p = <<"C", "A">> THEN "none" ELSE "new_id"]
    /\ resolved.v["B"] = 0 /\ resolved.v["C"] = 2 /\ resolved.v["D"] = 2

\* C22: wayland_scanner resolves an interface that several roots reach
\* through new_id arguments alone to the highest version among those roots,
\* in whichever order the roots were pushed.
C22_MaxOverStrongPaths ==
    scanner = "wayland" /\ resolved.st = "ok" =>
        /\ \A n \in StronglyRequired \ Named(globals) :
              resolved.v[n] = InheritedVersion(n)
        /\ \A order \in PushOrders(globals) :
              WaylandGenerate(declared, uses, globals, order) = resolved

\* The roots A at 1 and B at 2 both have a new_id argument typed C: C is
\* resolved to 2.
C22_Witness ==
    /\ scanner = "wayland"
    /\ resolved.st = "ok"
    /\ globals = {<<"A", 1>>, <<"B", 2>>}
    /\ uses[<<"A", "C">>] = "new_id" /\ uses[<<"B", "C">>] = "new_id"
    /\ resolved.v["C"] = 2

\* C36: the version map wayland_scanner computes is the same for every
\* order in which the same (root, version) pairs were pushed, roots
\* included.
C36_OrderIndependent ==
    scanner = "wayland" /\ resolved.st = "ok" =>
        \A order \in PushOrders(globals) :
           WaylandGenerate(declared, uses, globals, order).v = resolved.v

\* C33: once the compositor has closed its end, a roundtrip that is inside
\* its loop leaves it, by returning or by a panic.
C33_RoundtripStops == [](peer # "open" /\ Running => <>(~Running))

\* C34: with only held ids released, allocate returns an id of at least 1
\* that no caller holds, and data_for of a held id returns the data given to
\* the allocate that returned it last.
C34_IdsAreFresh ==
    /\ [][call'.fn = "allocate" /\ ids' # ids =>
             result'.id \notin Live /\ result'.id >= 1]_vars
    /\ [](call.fn = "data_for" =>
             result.st = "ok" /\ <<call.id, result.data>> \in held)
    /\ [](\A p \in held : \A q \in held : p[1] = q[1] => p = q)

\* With id 2 held, allocate has given out the released id 1 again, with
\* other data.
C34_Witness ==
    /\ call = [fn |-> "allocate", id |-> 0, data |-> "b"]
    /\ result = [st |-> "ok", id |-> 1, data |-> "b"]
    /\ ids = [next |-> 3, free |-> <<>>, data |-> <<"b", "a">>]
    /\ held = {<<1, "b">>, <<2, "a">>}

\* C30: Config::generate returns for every protocol set and every set of
\* roots: the traversal never recurses without end.
C30_ResolverTerminates == Generated => resolved.st # "overflow"

\* The args of one call that an interface x holds and that are typed y.
ArgsTyped(x, y) ==
    {i \in 1..Len(call.args) : call.args[i].of = x /\ call.args[i].interface = y}

\* C23: the graph has an edge from x to y exactly when x differs from y
\* and an argument of x is typed y; the edge is SameVersion when one of
\* those arguments is a new_id and AnyVersion when none is.
C23_GraphOfTypedArgs ==
    call.fn = "make_dependency_graph" /\ result.st = "ok" =>
        \A x \in Owners, y \in Owners :
            /\ result.e[<<x, y>>] # "none" <=> x # y /\ ArgsTyped(x, y) # {}
            /\ result.e[<<x, y>>] = "SameVersion" <=>
                   x # y /\ \E i \in ArgsTyped(x, y) : call.args[i].kind = "new_id"

\* A holds a new_id argument typed B, then an object argument typed B and
\* an object argument typed A: the graph has the one edge A-B, SameVersion.
C23_Witness ==
    /\ call.fn = "make_dependency_graph"
    /\ call.args = << [of |-> "A", interface |-> "B", kind |-> "new_id"],
                      [of |-> "A", interface |-> "B", kind |-> "object"],
                      [of |-> "A", interface |-> "A", kind |-> "object"] >>
    /\ result.st = "ok"
    /\ result.e[<<"A", "B">>] = "SameVersion"
    /\ result.e[<<"A", "A">>] = "none"

\* The arg is one that preprocess_protocol inserts.
Inserted(arg) == arg \in {InterfaceArg, VersionArg}

\* C25: after preprocess_protocol every new_id arg without interface has
\* the inserted "interface" string arg and then the inserted "version" uint
\* arg right before it, and the args that were there before are all there
\* in the order they had.
C25_InterfaceAndVersionPrecede ==
    call.fn = "preprocess_protocol" /\ result.st = "ok" =>
        /\ \A j \in 1..Len(result.args) :
              result.args[j].kind = "new_id" /\ result.args[j].interface = "none" =>
                  /\ j > 2
                  /\ result.args[j - 2] = InterfaceArg
                  /\ result.args[j - 1] = VersionArg
        /\ SelectSeq(result.args, LAMBDA arg : ~Inserted(arg)) = call.args

\* C28: Fixed::from gives, for a float and for an integer v alike, v x 256
\* cut to a 32-bit integer, f32::from divides that by 256, and an integer
\* converted there and back is the integer again.
C28_FixedIsTimes256 ==
    call.fn \in {"Fixed::from(f32)", "Fixed::from(i32)"} /\ result.st # "none" =>
        /\ result.st = "ok"
        /\ result.fixed = AsI32(call.value.num * 256, call.value.den)
        /\ result.back = F32(result.fixed, 256)
        /\ call.fn = "Fixed::from(i32)" =>
              result.back.num = call.value.num * result.back.den

\* The pruned list of the messages of one kind.
PrunedList(kind) == IF kind = "request" THEN pruned.out.requests ELSE pruned.out.events

\* The generated code for the messages of one kind.
CodeFor(kind) == IF kind = "request" THEN result.code.requests ELSE result.code.events

\* The places in the pruned list of the messages the generated code knows.
Known(kind) ==
    {i \in 1..Len(PrunedList(kind)) : PrunedList(kind)[i].id \notin result.other}

\* C24: for an interface above version 0, marshal writes for each message
\* the opcode that is its place in the pruned list and unmarshal has an arm
\* for exactly that opcode and message; a read of an opcode that is no such
\* place answers None, and a read of a place answers that message.
C24_OpcodeIsPrunedPosition ==
    result.st \in {"gen", "read"} /\ pruned.out.version # 0 =>
        /\ \A kind \in {"request", "event"} :
              /\ CodeFor(kind).marshal =
                    {[id |-> PrunedList(kind)[i].id, opcode |-> i - 1] : i \in Known(kind)}
              /\ CodeFor(kind).unmarshal =
                    {[opcode |-> i - 1, id |-> PrunedList(kind)[i].id] : i \in Known(kind)}
        /\ result.st = "read" =>
              IF result.read.opcode + 1 \in Known(result.read.kind)
              THEN result.read.got =
                     [st |-> "Some",
                      id |-> PrunedList(result.read.kind)[result.read.opcode + 1].id]
              ELSE result.read.got = [st |-> "None"]

\* Of two requests the first is since 2 and the second since 1; at version
\* 1 the second is the only one left, and a read of opcode 0 answers it.
C24_Witness ==
    /\ result.st = "read"
    /\ pruned.out.version = 1
    /\ Len(iface.requests) = 2
    /\ iface.requests[1].since = 2 /\ iface.requests[2].since = 1
    /\ result.read.kind = "request" /\ result.read.opcode = 0
    /\ result.read.got = [st |-> "Some", id |-> 2]

\* The places in the pruned list of the messages of the other context type.
LeftOut(kind) ==
    {i \in 1..Len(PrunedList(kind)) : PrunedList(kind)[i].id \in result.other}

\* C35: the arms generated with messages of the other context type left
\* out are those arms of the code generated with nothing left out that
\* belong to the remaining messages, opcodes unchanged; a read of the
\* opcode of a left-out message answers None.
C35_FilterKeepsOpcodes ==
    result.st \in {"gen", "read"} /\ pruned.out.version # 0 =>
        /\ \A kind \in {"request", "event"} :
              /\ CodeFor(kind).marshal =
                    {a \in GenMessageMarshaler(PrunedList(kind), {}) :
                        a.id \notin result.other}
              /\ CodeFor(kind).unmarshal =
                    {a \in GenMessageUnmarshaler(PrunedList(kind), {}) :
                        a.id \notin result.other}
        /\ result.st = "read" /\ result.read.opcode + 1 \in LeftOut(result.read.kind) =>
              result.read.got = [st |-> "None"]

\* Of two requests the first is of the other context type: the second is
\* written with opcode 1, and a read of opcode 0 answers None.
C35_Witness ==
    /\ result.st = "read"
    /\ result.other = {1}
    /\ Len(pruned.out.requests) = 2
    /\ result.code.requests.marshal = {[id |-> 2, opcode |-> 1]}
    /\ result.read.kind = "request" /\ result.read.opcode = 0
    /\ result.read.got = [st |-> "None"]

\* C27: for an interface at version 0 the handle struct and the Interface
\* variant are generated, and no Object impl, message enum, marshal arm or
\* variant of the global message enums; a read of a message of it panics.
C27_DisabledInterface ==
    result.st \in {"gen", "read"} /\ pruned.out.version = 0 =>
        /\ result.code.struct /\ result.global.variant
        /\ ~result.code.object_impl
        /\ ~result.global.message_variant /\ ~result.global.write
        /\ \A kind \in {"request", "event"} :
              ~CodeFor(kind).types /\ CodeFor(kind).marshal = {} /\ CodeFor(kind).unmarshal = {}
        /\ result.st = "read" => result.read.got = [st |-> "panic"]

\* An interface with a request is at version 0 and a request of opcode 0
\* is read.
C27_Witness ==
    /\ result.st = "read"
    /\ pruned.out.version = 0
    /\ iface.requests # <<>>
    /\ result.read.kind = "request" /\ result.read.opcode = 0
    /\ result.read.got = [st |-> "panic"]

\* ----------------------------------------------------- properties: pruning
\* `kept` holds exactly the items of `list` whose since is at most the
\* version, in the order of `list`.
KeptOf(kept, list, version) ==
    /\ {kept[i].id : i \in 1..Len(kept)}
          = {list[i].id : i \in {j \in 1..Len(list) : list[j].since <= version}}
    /\ \A i \in 1..Len(kept) : kept[i].since = list[kept[i].id].since
    /\ \A i, j \in 1..Len(kept) : i < j => kept[i].id < kept[j].id

\* C16: pruning to version v keeps exactly the requests, the events and the
\* enums with since <= v, and in each kept enum exactly the entries with
\* since <= v, each list in declaration order.
C16_PruneKeepsSinceAtMost ==
    pruned.done =>
        /\ KeptOf(pruned.out.requests, iface.requests, pruned.out.version)
        /\ KeptOf(pruned.out.events, iface.events, pruned.out.version)
        /\ KeptOf(pruned.out.enums, iface.enums, pruned.out.version)
        /\ \A i \in 1..Len(pruned.out.enums) :
              KeptOf(pruned.out.enums[i].entries,
                     iface.enums[pruned.out.enums[i].id].entries, pruned.out.version)

\* Requests with since 1, 2, 3 have been pruned at version 2.
C16_Witness ==
    /\ pruned.done
    /\ pruned.out.version = 2
    /\ [i \in 1..Len(iface.requests) |-> iface.requests[i].since] = <<1, 2, 3>>
    /\ [i \in 1..Len(pruned.out.requests) |-> pruned.out.requests[i].id] = <<1, 2>>

\* C17: an interface pruned at version 0 has no requests, events or enums
\* left.
C17_VersionZeroIsEmpty ==
    pruned.done /\ pruned.out.version = 0 =>
        /\ pruned.out.requests = <<>>
        /\ pruned.out.events = <<>>
        /\ pruned.out.enums = <<>>

\* ----------------------------------------------------- properties: parsing
\* The element whose function is reading.
Top == parse.stack[Len(parse.stack)]

\* The attributes the protocol format requires of an element: name on every
\* named element, version on interface, type on arg, value on entry.
Required(name) ==
    (IF name \in {"protocol", "interface", "request", "event", "arg", "enum", "entry"}
     THEN {"name"} ELSE {})
        \cup (IF name = "interface" THEN {"version"} ELSE {})
        \cup (IF name = "arg" THEN {"type"} ELSE {})
        \cup (IF name = "entry" THEN {"value"} ELSE {})

\* The elements the protocol format allows inside an element.
Allowed(top) ==
    {c \in Elements \ {"other"} :
        \/ top = "protocol" /\ c \in {"copyright", "description", "interface"}
        \/ top = "interface" /\ c \in {"description", "request", "event", "enum"}
        \/ top \in {"request", "event"} /\ c \in {"description", "arg"}
        \/ top = "enum" /\ c \in {"description", "entry"}
        \/ top \in {"arg", "entry"} /\ c = "description"}

\* C19: once inside <protocol>, an opening tag of a child the enclosing
\* element does not allow, or one that lacks a required attribute (on
\* <protocol> itself too), makes parse return None; so does the end of the
\* input while an element is open; None is final, and a Protocol is
\* returned only when every element that was opened has been closed.
C19_MalformedYieldsNone ==
    [][/\ parse.st = "in" /\ event'.k = "Open" /\ event'.name \notin Allowed(Top)
            => parse'.st = "None"
       /\ event'.k = "Open" /\ (parse.st = "in" \/ event'.name = "protocol")
            /\ ~(Required(event'.name) \subseteq event'.attrs)
            => parse'.st = "None"
       /\ parse.st = "in" /\ event'.k = "End" => parse'.st = "None"
       /\ parse.st = "None" => parse'.st = "None"
       /\ parse'.st = "Some" => parse'.stack = <<>> /\ event'.k = "Close"]_vars

\* parse has returned None on an unknown child of a request inside an
\* interface, the tag itself carrying a name.
C19_Witness ==
    /\ parse = [st |-> "None", stack |-> <<"protocol", "interface", "request">>]
    /\ event = [k |-> "Open", name |-> "other", attrs |-> {"name"}]
====
